---------------------------- MODULE Spec2Model ----------------------------
(***************************************************************************)
(* Model of JobSpyTools.find_jobs (src/tools/job_spy_tool.py): site        *)
(* normalisation, browser acquisition and release, the per-site search     *)
(* loops with pagination, URL deduplication with the results_wanted cap,   *)
(* rating and the rating filter, and the response.                         *)
(*                                                                         *)
(* Python str values are modelled as sequences of one-character strings,   *)
(* so that lower(), strip(), split() and the substring tests are computed  *)
(* and not assumed.  A key that is absent from a job dict is modelled by   *)
(* the empty text: the code reads every key through job.get(key, "") or    *)
(* tests it for truthiness, which does not tell the two apart.  The keys   *)
(* job_id, job_key, via and company_rating are written by the adapters     *)
(* and read nowhere; they are left out of the posting record.              *)
(***************************************************************************)
EXTENDS Integers, Sequences, FiniteSets, TLC

(***************************************************************************)
(* Text helpers (Python str operations).                                   *)
(***************************************************************************)
LowerMap ==
  [A |-> "a", B |-> "b", C |-> "c", D |-> "d", E |-> "e", F |-> "f",
   G |-> "g", H |-> "h", I |-> "i", J |-> "j", K |-> "k", L |-> "l",
   M |-> "m", N |-> "n", O |-> "o", P |-> "p", Q |-> "q", R |-> "r",
   S |-> "s", T |-> "t", U |-> "u", V |-> "v", W |-> "w", X |-> "x",
   Y |-> "y", Z |-> "z"]

\* str.lower()
Lower(s) ==
  [i \in 1..Len(s) |-> IF s[i] \in DOMAIN LowerMap THEN LowerMap[s[i]] ELSE s[i]]

\* sub in s
Contains(s, sub) ==
  \E i \in 0..(Len(s) - Len(sub)) : SubSeq(s, i + 1, i + Len(sub)) = sub

\* s.startswith(pre)
StartsWith(s, pre) ==
  Len(pre) <= Len(s) /\ SubSeq(s, 1, Len(pre)) = pre

\* s.replace(c, "") for a one-character c
RemoveChar(s, c) == SelectSeq(s, LAMBDA x : x # c)

\* str.strip(): leading and trailing blanks removed
Strip(s) ==
  IF \A i \in 1..Len(s) : s[i] = " " THEN <<>>
  ELSE LET a == CHOOSE i \in 1..Len(s) :
                   s[i] # " " /\ \A j \in 1..(i - 1) : s[j] = " "
           b == CHOOSE i \in 1..Len(s) :
                   s[i] # " " /\ \A j \in (i + 1)..Len(s) : s[j] = " "
       IN SubSeq(s, a, b)

\* s.split(c)[0]: the text before the first c, all of s when c is absent
BeforeFirst(s, c) ==
  IF \E i \in 1..Len(s) : s[i] = c
  THEN LET p == CHOOSE i \in 1..Len(s) :
                    s[i] = c /\ \A j \in 1..(i - 1) : s[j] # c
       IN SubSeq(s, 1, p - 1)
  ELSE s

Digits == <<"0", "1", "2", "3", "4", "5", "6", "7", "8", "9">>

IsDigit(c) == \E i \in 1..10 : Digits[i] = c

DigitVal(c) == (CHOOSE i \in 1..10 : Digits[i] = c) - 1

\* int() of the digit run s[i..j]
RECURSIVE ToNat(_, _, _)
ToNat(s, i, j) ==
  IF j < i THEN 0 ELSE ToNat(s, i, j - 1) * 10 + DigitVal(s[j])

\* last index of the maximal digit run that starts at i (s[i] is a digit)
RunEnd(s, i) ==
  CHOOSE j \in i..Len(s) :
     /\ \A m \in i..j : IsDigit(s[m])
     /\ (j = Len(s) \/ ~IsDigit(s[j + 1]))

\* index of the first digit of s, 0 when s has none
FirstDigit(s) ==
  IF \E i \in 1..Len(s) : IsDigit(s[i])
  THEN CHOOSE i \in 1..Len(s) :
          IsDigit(s[i]) /\ \A j \in 1..(i - 1) : ~IsDigit(s[j])
  ELSE 0

RECURSIVE Pow10(_)
Pow10(n) == IF n = 0 THEN 1 ELSE 10 * Pow10(n - 1)

(***************************************************************************)
(* Rating (JobSpyTools.calculate_rating and its helpers).                  *)
(***************************************************************************)
TARGET_SALARY == 200000

\* re.findall(r"(\d+(?:\.\d+)?)", text)[0] as the pair numerator,
\* denominator of the decimal it denotes; text has a digit
FirstNumber(text) ==
  LET i  == FirstDigit(text)
      j  == RunEnd(text, i)
      hasFrac == j + 2 <= Len(text) /\ text[j + 1] = "." /\ IsDigit(text[j + 2])
      k  == IF hasFrac THEN RunEnd(text, j + 2) ELSE j
  IN IF hasFrac
     THEN [num |-> ToNat(text, i, j) * Pow10(k - j - 1) + ToNat(text, j + 2, k),
           den |-> Pow10(k - j - 1)]
     ELSE [num |-> ToNat(text, i, j), den |-> 1]

\* mutant of _calculate_salary_penalty: hourly heuristic below 100 only
_calculate_salary_penalty_Hourly100(salary_text) ==
  IF salary_text = <<>> THEN 0
  ELSE
    LET text0 == RemoveChar(RemoveChar(Lower(salary_text), ","), "$")
        hasK  == Contains(text0, <<"k">>)
        multiplier == IF hasK THEN 1000 ELSE 1
        text  == IF hasK THEN RemoveChar(text0, "k") ELSE text0
    IN IF FirstDigit(text) = 0 THEN 0
       ELSE
         LET n    == FirstNumber(text)
             v1   == n.num * multiplier
             v2   == IF v1 < 100 * n.den THEN v1 * 2000 ELSE v1
         IN IF v2 >= TARGET_SALARY * n.den THEN 0
            ELSE 0 - ((TARGET_SALARY * n.den - v2) \div (10000 * n.den))

\* mutant of _calculate_salary_penalty: no hourly heuristic
_calculate_salary_penalty_NoHourly(salary_text) ==
  IF salary_text = <<>> THEN 0
  ELSE
    LET text0 == RemoveChar(RemoveChar(Lower(salary_text), ","), "$")
        hasK  == Contains(text0, <<"k">>)
        multiplier == IF hasK THEN 1000 ELSE 1
        text  == IF hasK THEN RemoveChar(text0, "k") ELSE text0
    IN IF FirstDigit(text) = 0 THEN 0
       ELSE
         LET n    == FirstNumber(text)
             v1   == n.num * multiplier
         IN IF v1 >= TARGET_SALARY * n.den THEN 0
            ELSE 0 - ((TARGET_SALARY * n.den - v1) \div (10000 * n.den))

_calculate_salary_penalty(salary_text) ==
  IF salary_text = <<>> THEN 0
  ELSE
    LET text0 == RemoveChar(RemoveChar(Lower(salary_text), ","), "$")
        hasK  == Contains(text0, <<"k">>)
        multiplier == IF hasK THEN 1000 ELSE 1
        text  == IF hasK THEN RemoveChar(text0, "k") ELSE text0
    IN IF FirstDigit(text) = 0 THEN 0
       ELSE
         LET n    == FirstNumber(text)
             \* val is v1 / n.den, then v2 / n.den after the hourly heuristic
             v1   == n.num * multiplier
             v2   == IF v1 < 200 * n.den THEN v1 * 2000 ELSE v1
         IN IF v2 >= TARGET_SALARY * n.den THEN 0
            ELSE 0 - ((TARGET_SALARY * n.den - v2) \div (10000 * n.den))

BEST_PLACES_TO_WORK ==
  {<<"g", "o", "o", "g", "l", "e">>,
   <<"z", "a", "p", "p", "o", "s">>,
   <<"b", "l", "u", "e", "c", "o", "r", "e">>,
   <<"a", "i", "r", "b", "n", "b">>,
   <<"c", "o", "s", "t", "c", "o">>,
   <<"z", "o", "o", "m">>,
   <<"i", "k", "e", "a">>,
   <<"c", "i", "s", "c", "o">>,
   <<"i", "b", "m">>,
   <<"s", "q", "u", "a", "r", "e", "s", "p", "a", "c", "e">>,
   <<"w", "a", "r", "b", "y", " ", "p", "a", "r", "k", "e", "r">>,
   <<"h", "e", "a", "l", "t", "h", "p", "e", "a", "k">>,
   <<"m", "i", "g", "h", "t", "y", " ", "c", "i", "t", "i", "z", "e", "n">>,
   <<"s", "u", "p", "p", "l", "y", "f", "o", "r", "c", "e">>,
   <<"p", "u", "l", "t", "e", "g", "r", "o", "u", "p">>,
   <<"p", "r", "o", "g", "r", "e", "s", "s", "i", "v", "e", " ", "i", "n", "s", "u", "r", "a", "n", "c", "e">>,
   <<"d", "o", "w">>,
   <<"d", "e", "l", "t", "a">>,
   <<"a", "d", "o", "b", "e">>,
   <<"b", "o", "s", "t", "o", "n", " ", "s", "c", "i", "e", "n", "t", "i", "f", "i", "c">>,
   <<"c", "a", "n", "v", "a">>,
   <<"c", "a", "p", "i", "t", "a", "l", " ", "o", "n", "e">>,
   <<"c", "h", "a", "s", "e">>,
   <<"d", "e", "l", "o", "i", "t", "t", "e">>,
   <<"e", "p", "s", "i", "l", "o", "n">>,
   <<"e", "y">>,
   <<"h", "y", "u", "n", "d", "a", "i">>,
   <<"i", "n", "t", "u", "i", "t">>,
   <<"p", "f", "i", "z", "e", "r">>,
   <<"s", "a", "p">>,
   <<"s", "t", "a", "r", "b", "u", "c", "k", "s">>,
   <<"v", "e", "r", "i", "z", "o", "n">>,
   <<"m", "o", "t", "o", "r", "o", "l", "a", " ", "s", "o", "l", "u", "t", "i", "o", "n", "s">>,
   <<"s", "i", "e", "m", "e", "n", "s">>,
   <<"o", "m", "n", "e", "a">>,
   <<"n", "v", "i", "d", "i", "a">>,
   <<"m", "i", "c", "r", "o", "s", "o", "f", "t">>,
   <<"b", "a", "i", "n", " ", "&", " ", "c", "o", "m", "p", "a", "n", "y">>,
   <<"a", "t", "l", "a", "s", "s", "i", "a", "n">>,
   <<"s", "a", "l", "e", "s", "f", "o", "r", "c", "e">>,
   <<"m", "a", "t", "h", "w", "o", "r", "k", "s">>,
   <<"l", "y", "u", "l", "f", "e">>,
   <<"p", "r", "o", "c", "o", "r", "e">>,
   <<"s", "e", "r", "v", "i", "c", "e", "n", "o", "w">>,
   <<"h", "u", "b", "s", "p", "o", "t">>,
   <<"w", "o", "r", "k", "d", "a", "y">>,
   <<"f", "i", "d", "e", "l", "i", "t", "y", " ", "i", "n", "v", "e", "s", "t", "m", "e", "n", "t", "s">>,
   <<"a", "l", "l", "y">>,
   <<"m", "a", "s", "t", "e", "r", "c", "a", "r", "d">>,
   <<"a", "p", "p", "l", "e">>,
   <<"m", "e", "t", "a">>}

_is_best_place_to_work(company_name) ==
  IF company_name = <<>> THEN FALSE
  ELSE LET name == Strip(Lower(company_name))
       IN \E best_company \in BEST_PLACES_TO_WORK : Contains(name, best_company)

RECENT_TOKENS ==
  {<<"t", "o", "d", "a", "y">>, <<"j", "u", "s", "t">>, <<"h", "o", "u", "r">>, <<"m", "i", "n", "u", "t", "e">>, <<"s", "e", "c", "o", "n", "d">>, <<"n", "e", "w">>}

\* the digit run that starts at i is followed by blanks and then a "d"
DayRunAt(text, i) ==
  LET j == RunEnd(text, i)
  IN \E m \in (j + 1)..Len(text) :
        text[m] = "d" /\ \A q \in (j + 1)..(m - 1) : text[q] = " "

\* re.search(r"(\d+)\s*d", text): start of the leftmost match, 0 when none
DayMatch(text) ==
  LET starts == {i \in 1..Len(text) : IsDigit(text[i]) /\ DayRunAt(text, i)}
  IN IF starts = {} THEN 0
     ELSE CHOOSE i \in starts : \A j \in starts : i <= j

_is_recent_job(date_text) ==
  IF date_text = <<>> THEN FALSE
  ELSE LET text == Lower(date_text)
       IN IF \E x \in RECENT_TOKENS : Contains(text, x) THEN TRUE
          ELSE IF DayMatch(text) # 0
               THEN ToNat(text, DayMatch(text), RunEnd(text, DayMatch(text))) <= 3
               ELSE FALSE

\* mutant of B2N: two points for a criterion
B2N_Two(b) == IF b THEN 2 ELSE 0

B2N(b) == IF b THEN 1 ELSE 0

\* mutant of calculate_rating: no onsite penalty
calculate_rating_NoOnsite(job) ==
  LET title     == Lower(job.title)
      snippet   == Lower(job.snippet)
      location  == Lower(job.location)
      full_text == title \o <<" ">> \o snippet
      is_remote == Contains(location, <<"r", "e", "m", "o", "t", "e">>) \/ job.remote = "true"
  IN   B2N(job.easy_apply)
     + B2N(_is_recent_job(job.date_posted))
     + B2N(_is_best_place_to_work(job.company))
     + B2N(Contains(title, <<"c", "o", "n", "t", "r", "a", "c", "t">>) \/ Contains(snippet, <<"c", "o", "n", "t", "r", "a", "c", "t">>))
     + B2N(is_remote)
     + B2N(Contains(full_text, <<"c", "#">>) \/ Contains(full_text, <<"c", " ", "s", "h", "a", "r", "p">>))
     + B2N(Contains(full_text, <<"c", "+", "+">>) \/ Contains(full_text, <<"c", "p", "p">>))
     + _calculate_salary_penalty(job.salary)

calculate_rating(job) ==
  LET title     == Lower(job.title)
      snippet   == Lower(job.snippet)
      location  == Lower(job.location)
      full_text == title \o <<" ">> \o snippet
      is_remote == Contains(location, <<"r", "e", "m", "o", "t", "e">>) \/ job.remote = "true"
      is_hybrid == Contains(location, <<"h", "y", "b", "r", "i", "d">>)
  IN   B2N(job.easy_apply)
     + B2N(_is_recent_job(job.date_posted))
     + B2N(_is_best_place_to_work(job.company))
     + B2N(Contains(title, <<"c", "o", "n", "t", "r", "a", "c", "t">>) \/ Contains(snippet, <<"c", "o", "n", "t", "r", "a", "c", "t">>))
     + B2N(is_remote)
     + B2N(Contains(full_text, <<"c", "#">>) \/ Contains(full_text, <<"c", " ", "s", "h", "a", "r", "p">>))
     + B2N(Contains(full_text, <<"c", "+", "+">>) \/ Contains(full_text, <<"c", "p", "p">>))
     - B2N(~is_remote /\ ~is_hybrid)
     + _calculate_salary_penalty(job.salary)

(***************************************************************************)
(* MockJobSpyTools of src/tests/test_rating_logic.py, the class the test   *)
(* suite exercises in place of JobSpyTools.                                *)
(***************************************************************************)
MockJobSpyTools_calculate_salary_penalty(salary_text) ==
  IF salary_text = <<>> THEN 0
  ELSE
    LET text0 == RemoveChar(RemoveChar(Lower(salary_text), ","), "$")
        hasK  == Contains(text0, <<"k">>)
        multiplier == IF hasK THEN 1000 ELSE 1
        text  == IF hasK THEN RemoveChar(text0, "k") ELSE text0
    IN IF FirstDigit(text) = 0 THEN 0
       ELSE
         LET n    == FirstNumber(text)
             v1   == n.num * multiplier
             v2   == IF v1 < 200 * n.den THEN v1 * 2000 ELSE v1
         IN IF v2 >= 200000 * n.den THEN 0
            ELSE 0 - ((200000 * n.den - v2) \div (10000 * n.den))

\* BEST_PLACES_TO_WORK of the mock ("simplified")
MOCK_BEST_PLACES_TO_WORK == {<<"g", "o", "o", "g", "l", "e">>, <<"m", "i", "c", "r", "o", "s", "o", "f", "t">>, <<"a", "p", "p", "l", "e">>, <<"m", "e", "t", "a">>}

MockJobSpyTools_calculate_rating(job) ==
  LET title     == Lower(job.title)
      snippet   == Lower(job.snippet)
      location  == Lower(job.location)
      full_text == title \o <<" ">> \o snippet
      date_text == Lower(job.date_posted)
      is_remote == Contains(location, <<"r", "e", "m", "o", "t", "e">>) \/ job.remote = "true"
      is_hybrid == Contains(location, <<"h", "y", "b", "r", "i", "d">>)
      recent    == IF \E x \in {<<"t", "o", "d", "a", "y">>, <<"j", "u", "s", "t">>, <<"h", "o", "u", "r">>, <<"m", "i", "n", "u", "t", "e">>,
                                 <<"s", "e", "c", "o", "n", "d">>, <<"n", "e", "w">>} : Contains(date_text, x)
                   THEN TRUE
                   ELSE /\ DayMatch(date_text) # 0
                        /\ ToNat(date_text, DayMatch(date_text),
                                 RunEnd(date_text, DayMatch(date_text))) <= 3
  IN   B2N(job.easy_apply)
     + B2N(Contains(title, <<"c", "o", "n", "t", "r", "a", "c", "t">>) \/ Contains(snippet, <<"c", "o", "n", "t", "r", "a", "c", "t">>))
     + B2N(is_remote)
     + B2N(Contains(full_text, <<"c", "#">>) \/ Contains(full_text, <<"c", " ", "s", "h", "a", "r", "p">>))
     + B2N(Contains(full_text, <<"c", "+", "+">>) \/ Contains(full_text, <<"c", "p", "p">>))
     + B2N(recent)
     + B2N(Lower(job.company) \in MOCK_BEST_PLACES_TO_WORK)
     - B2N(~is_remote /\ ~is_hybrid)
     + MockJobSpyTools_calculate_salary_penalty(job.salary)

(***************************************************************************)
(* Bounds of the model and the inputs of a run.                            *)
(***************************************************************************)
\* small values of results_wanted that are tried
MaxWanted == 3
\* listing cards served to one run, the oversized pages not counted
MaxCards == 2

LINKEDIN_PAGE == 25
INDEED_PAGE == 15
MIN_PER_SITE == 5
MIN_JOB_RATING == 0

SUPPORTED_SITES ==
  {<<"l", "i", "n", "k", "e", "d", "i", "n">>, <<"g", "l", "a", "s", "s", "d", "o", "o", "r">>, <<"g", "o", "o", "g", "l", "e">>, <<"i", "n", "d", "e", "e", "d">>, <<"l", "e", "v", "e", "l", "s", "f", "y", "i">>}

\* results_wanted: the small values, and the least values for which a
\* single-site Indeed or LinkedIn search needs a second page
WantedValues == (1..MaxWanted) \cup {INDEED_PAGE + 1, LINKEDIN_PAGE + 1}

\* the sites argument: None, or a list of strings
SitesInputs ==
  {[none |-> TRUE, list |-> <<>>]} \cup
  {[none |-> FALSE, list |-> l] : l \in
     {<<>>,
      <<<<"m", "o", "n", "s", "t", "e", "r">>>>,
      <<<<"I", "n", "d", "e", "e", "d">>>>,
      <<<<"l", "i", "n", "k", "e", "d", "i", "n">>>>,
      <<<<"g", "l", "a", "s", "s", "d", "o", "o", "r">>, <<"m", "o", "n", "s", "t", "e", "r">>, <<"i", "n", "d", "e", "e", "d">>>>,
      <<<<"l", "i", "n", "k", "e", "d", "i", "n">>, <<"L", "i", "n", "k", "e", "d", "I", "n">>>>,
      <<<<"i", "n", "d", "e", "e", "d">>, <<"l", "e", "v", "e", "l", "s", "f", "y", "i">>, <<"g", "o", "o", "g", "l", "e">>>>}}

\* days_ago as the caller passes it: an int, or (from a tool call that
\* quotes its arguments) a str
DaysAgoInputs == {"int", "str"}

(***************************************************************************)
(* Listing cards: what the DOM of one listing container holds.  A field    *)
(* whose element is missing is the empty text.                             *)
(***************************************************************************)
Card(title, company, location, href, date_text, salary, snippet, worktype, broken) ==
  [title |-> title, company |-> company, location |-> location, href |-> href,
   datetime |-> <<>>, date_text |-> date_text, salary |-> salary,
   snippet |-> snippet, worktype |-> worktype, broken |-> broken]

cardA == Card(<<" ", "C", "#", " ", "D", "e", "v", " ">>, <<"G", "o", "o", "g", "l", "e", " ", "I", "n", "c">>, <<"R", "e", "m", "o", "t", "e">>, <<"/", "a", "?", "t", "=", "1">>,
              <<"2", " ", "d", "a", "y", "s", " ", "a", "g", "o">>, <<"$", "2", "5", "0", "k">>, <<"c", "+", "+">>, <<>>, FALSE)
cardB == Card(<<"J", "a", "v", "a", " ", "D", "e", "v">>, <<"A", "c", "m", "e">>, <<"A", "u", "s", "t", "i", "n">>, <<"/", "b">>,
              <<>>, <<"$", "1", "0", "0", "k">>, <<>>, <<>>, FALSE)
cardA2 == Card(<<"D", "e", "v">>, <<"A", "c", "m", "e">>, <<"H", "y", "b", "r", "i", "d">>, <<"/", "a">>,
               <<>>, <<>>, <<>>, <<"H", "y", "b", "r", "i", "d">>, FALSE)
cardC == Card(<<"C", "o", "n", "t", "r", "a", "c", "t", " ", "D", "e", "v">>, <<"A", "c", "m", "e">>, <<"N", "Y", "C">>, <<"h", "t", "t", "p", ":", "/", "/", "x", ".", "i", "o", "/", "j">>,
              <<"P", "o", "s", "t", "e", "d", " ", "t", "o", "d", "a", "y">>, <<>>, <<>>, <<"R", "e", "m", "o", "t", "e">>, FALSE)
\* no link element
cardE == Card(<<"Q", "A">>, <<"I", "b", "m">>, <<"R", "e", "m", "o", "t", "e">>, <<>>, <<>>, <<>>, <<>>, <<>>, FALSE)
\* no company element
cardT == Card(<<"O", "p", "s">>, <<>>, <<"R", "e", "m", "o", "t", "e">>, <<"/", "t">>, <<>>, <<>>, <<>>, <<>>, FALSE)
\* a card whose extraction raises
cardX == Card(<<"D", "e", "v">>, <<"A", "c", "m", "e">>, <<"R", "e", "m", "o", "t", "e">>, <<"/", "x">>, <<>>, <<>>, <<>>, <<>>, TRUE)

Cards == {cardA, cardB, cardA2, cardC, cardE, cardT, cardX}

RECURSIVE SeqsOfLen(_, _)
SeqsOfLen(S, n) ==
  IF n = 0 THEN {<<>>}
  ELSE {Append(q, e) : q \in SeqsOfLen(S, n - 1), e \in S}

SeqsUpTo(S, n) == UNION {SeqsOfLen(S, k) : k \in 0..n}

\* a page of n cards, used for pages larger than the nominal page size
BulkPage(n) == [i \in 1..n |-> IF i % 2 = 1 THEN cardC ELSE cardB]

(***************************************************************************)
(* Site adapters: _extract_<site>_jobs.  Each maps the cards of a loaded   *)
(* page to postings, skipping a card whose extraction raises and a card    *)
(* without title or company.                                               *)
(***************************************************************************)
Job(title, company, location, url, source, date_posted, salary, snippet, remote) ==
  [title |-> title, company |-> company, location |-> location, url |-> url,
   source |-> source, date_posted |-> date_posted, salary |-> salary,
   snippet |-> snippet, remote |-> remote, easy_apply |-> FALSE]

PercentMap ==
  [c \in {"#", "+", "/", "$", "?", "=", ":", ",", "&"} |->
     CASE c = "#" -> <<"%", "2", "3">> [] c = "+" -> <<"%", "2", "B">> [] c = "/" -> <<"%", "2", "F">>
       [] c = "$" -> <<"%", "2", "4">> [] c = "?" -> <<"%", "3", "F">> [] c = "=" -> <<"%", "3", "D">>
       [] c = ":" -> <<"%", "3", "A">> [] c = "," -> <<"%", "2", "C">> [] c = "&" -> <<"%", "2", "6">>]

\* urllib.parse.quote_plus
RECURSIVE quote_plus(_)
quote_plus(s) ==
  IF s = <<>> THEN <<>>
  ELSE (IF Head(s) = " " THEN <<"+">>
        ELSE IF Head(s) \in DOMAIN PercentMap THEN PercentMap[Head(s)]
        ELSE <<Head(s)>>) \o quote_plus(Tail(s))

\* href made absolute: f"{origin}{href}" if href.startswith("/") else href
Absolute(origin, href) ==
  IF StartsWith(href, <<"/">>) THEN origin \o href ELSE href

LinkedInJob(card) ==
  Job(Strip(card.title), Strip(card.company), Strip(card.location),
      BeforeFirst(card.href, "?"), <<"l", "i", "n", "k", "e", "d", "i", "n">>,
      IF card.datetime # <<>> THEN card.datetime ELSE Strip(card.date_text),
      Strip(card.salary), <<>>, "none")

GlassdoorJob(card) ==
  Job(Strip(card.title), Strip(card.company), Strip(card.location),
      Absolute(<<"h", "t", "t", "p", "s", ":", "/", "/", "w", "w", "w", ".", "g", "l", "a", "s", "s", "d", "o", "o", "r", ".", "c", "o", "m">>, card.href), <<"g", "l", "a", "s", "s", "d", "o", "o", "r">>,
      <<>>, Strip(card.salary), <<>>, "none")

GoogleJob(card) ==
  LET title   == Strip(card.title)
      company == Strip(card.company)
      loc     == Strip(card.location)
  IN Job(title, company,
         IF company # <<>> /\ ~Contains(loc, company) THEN loc ELSE <<>>,
         <<"h", "t", "t", "p", "s", ":", "/", "/", "w", "w", "w", ".", "g", "o", "o", "g", "l", "e", ".", "c", "o", "m", "/", "s", "e", "a", "r", "c", "h", "?", "q", "=">>
            \o quote_plus(title \o <<" ">> \o company \o <<" ", "j", "o", "b", "s">>),
         <<"g", "o", "o", "g", "l", "e">>, Strip(card.date_text), <<>>, <<>>, "none")

LevelsFyiJob(card) ==
  LET worktype == Lower(Strip(card.worktype))
  IN Job(Strip(card.title), Strip(card.company),
         Strip(BeforeFirst(Strip(card.location), "·")),
         Absolute(<<"h", "t", "t", "p", "s", ":", "/", "/", "w", "w", "w", ".", "l", "e", "v", "e", "l", "s", ".", "f", "y", "i">>, card.href), <<"l", "e", "v", "e", "l", "s", "f", "y", "i">>,
         Strip(card.date_text), Strip(card.salary), <<>>,
         IF Contains(worktype, <<"r", "e", "m", "o", "t", "e">>) THEN "true"
         ELSE IF Contains(worktype, <<"h", "y", "b", "r", "i", "d">>) THEN "hybrid" ELSE "none")

INDEED_DATE_TOKENS == {<<"p", "o", "s", "t", "e", "d">>, <<"a", "g", "o">>, <<"j", "u", "s", "t">>, <<"t", "o", "d", "a", "y">>}

IndeedJob(card) ==
  LET date_text == Strip(card.date_text)
  IN Job(Strip(card.title), Strip(card.company), Strip(card.location),
         Absolute(<<"h", "t", "t", "p", "s", ":", "/", "/", "w", "w", "w", ".", "i", "n", "d", "e", "e", "d", ".", "c", "o", "m">>, card.href), <<"i", "n", "d", "e", "e", "d">>,
         IF \E x \in INDEED_DATE_TOKENS : Contains(Lower(date_text), x)
         THEN date_text ELSE <<>>,
         Strip(card.salary), Strip(card.snippet), "none")

AdapterJob(site, card) ==
  CASE site = <<"l", "i", "n", "k", "e", "d", "i", "n">> -> LinkedInJob(card)
    [] site = <<"g", "l", "a", "s", "s", "d", "o", "o", "r">> -> GlassdoorJob(card)
    [] site = <<"g", "o", "o", "g", "l", "e">> -> GoogleJob(card)
    [] site = <<"l", "e", "v", "e", "l", "s", "f", "y", "i">> -> LevelsFyiJob(card)
    [] site = <<"i", "n", "d", "e", "e", "d">> -> IndeedJob(card)

\* mutant of KeepJob: the company is not required
KeepJob_TitleOnly(job) == job.title # <<>>

\* "Only add job if we have at least title and company"
KeepJob(job) == job.title # <<>> /\ job.company # <<>>

\* mutant of ExtractCards: a card that raises ends the loop
RECURSIVE ExtractCards_StopAtError(_, _)
ExtractCards_StopAtError(site, cards) ==
  IF cards = <<>> THEN <<>>
  ELSE LET card == Head(cards)
           rest == ExtractCards_StopAtError(site, Tail(cards))
       IN IF card.broken THEN <<>>
          ELSE IF KeepJob(AdapterJob(site, card))
               THEN <<AdapterJob(site, card)>> \o rest
               ELSE rest

\* the card loop of _extract_<site>_jobs; a page whose wait_for_selector
\* timed out (loaded = FALSE) gives no jobs
RECURSIVE ExtractCards(_, _)
ExtractCards(site, cards) ==
  IF cards = <<>> THEN <<>>
  ELSE LET card == Head(cards)
           rest == ExtractCards(site, Tail(cards))
       IN IF card.broken THEN rest
          ELSE IF KeepJob(AdapterJob(site, card))
               THEN <<AdapterJob(site, card)>> \o rest
               ELSE rest

ExtractJobs(site, page) ==
  IF page.loaded THEN ExtractCards(site, page.cards) ELSE <<>>

(***************************************************************************)
(* find_jobs: the pure steps.                                              *)
(***************************************************************************)
\* mutant of NormalizeSites: the recognised sites in reverse order
NormalizeSites_Reversed(sites) ==
  LET given == IF sites.none THEN <<<<"l", "i", "n", "k", "e", "d", "i", "n">>>> ELSE sites.list
      kept  == SelectSeq(given, LAMBDA s : Lower(s) \in SUPPORTED_SITES)
      valid == [i \in 1..Len(kept) |-> Lower(kept[Len(kept) + 1 - i])]
  IN IF valid = <<>> THEN <<<<"l", "i", "n", "k", "e", "d", "i", "n">>>> ELSE valid

\* [s.lower() for s in sites if s.lower() in self.SUPPORTED_SITES],
\* ["linkedin"] for None and for an empty result
NormalizeSites(sites) ==
  LET given == IF sites.none THEN <<<<"l", "i", "n", "k", "e", "d", "i", "n">>>> ELSE sites.list
      valid == [i \in 1..Len(SelectSeq(given, LAMBDA s : Lower(s) \in SUPPORTED_SITES))
                  |-> Lower(SelectSeq(given, LAMBDA s : Lower(s) \in SUPPORTED_SITES)[i])]
  IN IF valid = <<>> THEN <<<<"l", "i", "n", "k", "e", "d", "i", "n">>>> ELSE valid

Max(a, b) == IF a >= b THEN a ELSE b

\* mutant of JobsPerSite: the quotient rounded up
JobsPerSite_Ceil(wanted, nsites) ==
  Max((wanted + nsites - 1) \div nsites, MIN_PER_SITE)

\* jobs_per_site = max(results_wanted // len(valid_sites), 5)
JobsPerSite(wanted, nsites) == Max(wanted \div nsites, MIN_PER_SITE)

JobsPerPage(site) == IF site = <<"l", "i", "n", "k", "e", "d", "i", "n">> THEN LINKEDIN_PAGE ELSE INDEED_PAGE

\* pages_needed = (max_jobs + jobs_per_page - 1) // jobs_per_page
PagesNeeded(site, max_jobs) ==
  (max_jobs + JobsPerPage(site) - 1) \div JobsPerPage(site)

Paginated(site) == site \in {<<"l", "i", "n", "k", "e", "d", "i", "n">>, <<"i", "n", "d", "e", "e", "d">>}

\* all_jobs[:max_jobs]
Take(jobs, n) == SubSeq(jobs, 1, IF Len(jobs) < n THEN Len(jobs) ELSE n)

\* _build_<site>_url compares days_ago with an int (every builder but
\* Indeed's, which only formats it): a str raises TypeError
BuildUrlRaises(site, daysAgo) == daysAgo = "str" /\ site # <<"i", "n", "d", "e", "e", "d">>

\* mutant: the cap is tested with > (one posting too many is kept)
RECURSIVE DedupFrom_LateCap(_, _, _, _, _)
DedupFrom_LateCap(jobs, i, seen_urls, unique, wanted) ==
  IF i > Len(jobs) THEN unique
  ELSE LET url == jobs[i].url
       IN IF url # <<>> /\ url \notin seen_urls
          THEN IF Len(unique) + 1 > wanted
               THEN Append(unique, jobs[i])
               ELSE DedupFrom_LateCap(jobs, i + 1, seen_urls \cup {url},
                                      Append(unique, jobs[i]), wanted)
          ELSE DedupFrom_LateCap(jobs, i + 1, seen_urls, unique, wanted)

\* mutant: seen_urls.add(url) is missing
RECURSIVE DedupFrom_NoSeen(_, _, _, _, _)
DedupFrom_NoSeen(jobs, i, seen_urls, unique, wanted) ==
  IF i > Len(jobs) THEN unique
  ELSE LET url == jobs[i].url
       IN IF url # <<>> /\ url \notin seen_urls
          THEN IF Len(unique) + 1 >= wanted
               THEN Append(unique, jobs[i])
               ELSE DedupFrom_NoSeen(jobs, i + 1, seen_urls,
                                     Append(unique, jobs[i]), wanted)
          ELSE DedupFrom_NoSeen(jobs, i + 1, seen_urls, unique, wanted)

\* mutant: unique_jobs.insert(0, job) in place of append
RECURSIVE DedupFrom_Prepend(_, _, _, _, _)
DedupFrom_Prepend(jobs, i, seen_urls, unique, wanted) ==
  IF i > Len(jobs) THEN unique
  ELSE LET url == jobs[i].url
       IN IF url # <<>> /\ url \notin seen_urls
          THEN IF Len(unique) + 1 >= wanted
               THEN <<jobs[i]>> \o unique
               ELSE DedupFrom_Prepend(jobs, i + 1, seen_urls \cup {url},
                                      <<jobs[i]>> \o unique, wanted)
          ELSE DedupFrom_Prepend(jobs, i + 1, seen_urls, unique, wanted)

\* mutant: the test "if url" is missing
RECURSIVE DedupFrom_KeepEmpty(_, _, _, _, _)
DedupFrom_KeepEmpty(jobs, i, seen_urls, unique, wanted) ==
  IF i > Len(jobs) THEN unique
  ELSE LET url == jobs[i].url
       IN IF url \notin seen_urls
          THEN IF Len(unique) + 1 >= wanted
               THEN Append(unique, jobs[i])
               ELSE DedupFrom_KeepEmpty(jobs, i + 1, seen_urls \cup {url},
                                        Append(unique, jobs[i]), wanted)
          ELSE DedupFrom_KeepEmpty(jobs, i + 1, seen_urls, unique, wanted)

\* the dedup loop of find_jobs from job i on, with its break at the cap
RECURSIVE DedupFrom(_, _, _, _, _)
DedupFrom(jobs, i, seen_urls, unique, wanted) ==
  IF i > Len(jobs) THEN unique
  ELSE LET url == jobs[i].url
       IN IF url # <<>> /\ url \notin seen_urls
          THEN IF Len(unique) + 1 >= wanted
               THEN Append(unique, jobs[i])
               ELSE DedupFrom(jobs, i + 1, seen_urls \cup {url},
                              Append(unique, jobs[i]), wanted)
          ELSE DedupFrom(jobs, i + 1, seen_urls, unique, wanted)

\* mutant of Dedup: the list is not capped before it is rated
Dedup_NoCap(jobs, wanted) == DedupFrom(jobs, 1, {}, <<>>, Len(jobs) + 1)

Dedup(jobs, wanted) == DedupFrom(jobs, 1, {}, <<>>, wanted)

\* job["rating"] = self.calculate_rating(job)
Rated(job) ==
  [title |-> job.title, company |-> job.company, location |-> job.location,
   url |-> job.url, source |-> job.source, date_posted |-> job.date_posted,
   salary |-> job.salary, snippet |-> job.snippet, remote |-> job.remote,
   easy_apply |-> job.easy_apply, rating |-> calculate_rating(job)]

\* mutant: every rated job is kept
RateAndFilter_NoFilter(unique) ==
  [i \in 1..Len(unique) |-> Rated(unique[i])]

\* mutant: the kept jobs are sorted by rating, best first
RECURSIVE ByRatingFrom(_, _)
ByRatingFrom(jobs, r) ==
  IF r < MIN_JOB_RATING THEN <<>>
  ELSE SelectSeq(jobs, LAMBDA job : job.rating = r) \o ByRatingFrom(jobs, r - 1)

RateAndFilter_Sorted(unique) ==
  ByRatingFrom(SelectSeq([i \in 1..Len(unique) |-> Rated(unique[i])],
                         LAMBDA job : job.rating >= MIN_JOB_RATING), 7)

\* the rating loop: rated_jobs keeps the jobs with rating >= MIN_JOB_RATING
RateAndFilter(unique) ==
  SelectSeq([i \in 1..Len(unique) |-> Rated(unique[i])],
            LAMBDA job : job.rating >= MIN_JOB_RATING)

NormalResponse(sitesSearched, jobs) ==
  [kind |-> "ok", sites_searched |-> sitesSearched,
   total_found |-> Len(jobs), jobs |-> jobs]

\* mutant: the handler returns an empty normal response
ErrorEnvelope_AsNormal(msg) ==
  [kind |-> "ok", sites_searched |-> <<>>, total_found |-> 0, jobs |-> <<>>]

\* json.dumps({"error": str(e), "jobs": []})
ErrorEnvelope(msg) == [kind |-> "error", error |-> msg, jobs |-> <<>>]

\* mutant: playwright is started without a with block
BrowserAfterExit_Leak(b) == b

\* leaving the "with ... sync_playwright()" block stops the driver, which
\* closes a browser it still holds
BrowserAfterExit(b) == IF b = "open" THEN "closed" ELSE b

(***************************************************************************)
(* State.                                                                  *)
(***************************************************************************)
VARIABLES
  pc,              \* position of the run inside find_jobs
  results_wanted,  \* argument
  sites,           \* argument
  days_ago,        \* argument (its type)
  valid_sites,     \* normalised site list
  jobs_per_site,   \* per-site quota
  playwright,      \* "none", "started", "stopped"
  browser,         \* "none", "open", "closed"
  site_idx,        \* index into valid_sites of the site being searched
  page_num,        \* page_num of the running _search_<site> loop
  site_jobs,       \* all_jobs of the running _search_<site>
  stopped,         \* the pagination loop was left by break
  all_jobs,        \* merged list
  exc,             \* str(e) of the exception on its way to line 1102
  unique_jobs,     \* result of the dedup loop
  response,        \* what find_jobs returned
  served,          \* listing cards served so far
  trace,           \* history of browser operations: <<kind, site index, page>>
  rated,           \* the postings calculate_rating was called on (line 1119)
  probe,           \* a helper applied on its own: [op, in, out, done]
  sh,              \* GoogleSheetsTools.sh is set (authentication succeeded)
  sheet,           \* the rows of sheet1, each a sequence of cell values
  reply,           \* what the last GoogleSheetsTools tool call returned
  calls            \* number of GoogleSheetsTools tool calls made

vars == <<pc, results_wanted, sites, days_ago, valid_sites, jobs_per_site,
          playwright, browser, site_idx, page_num, site_jobs, stopped,
          all_jobs, exc, unique_jobs, response, served, trace, rated, probe,
          sh, sheet, reply, calls>>

book == <<sh, sheet, reply, calls>>

args == <<results_wanted, sites, days_ago>>

NoResponse == [kind |-> "none"]

NoProbe == [op |-> "none"]

NoReply == [op |-> "none"]

\* no GoogleSheetsTools object
NoBook == sh = FALSE /\ sheet = <<>> /\ reply = NoReply /\ calls = 0

Init ==
  /\ pc = "start"
  /\ results_wanted \in WantedValues
  /\ sites \in SitesInputs
  /\ days_ago \in DaysAgoInputs
  /\ valid_sites = <<>>
  /\ jobs_per_site = 0
  /\ playwright = "none"
  /\ browser = "none"
  /\ site_idx = 0
  /\ page_num = 0
  /\ site_jobs = <<>>
  /\ stopped = FALSE
  /\ all_jobs = <<>>
  /\ exc = ""
  /\ unique_jobs = <<>>
  /\ response = NoResponse
  /\ served = 0
  /\ trace = <<>>
  /\ rated = <<>>
  /\ probe = NoProbe
  /\ NoBook

Site == valid_sites[site_idx]

Log(kind, p) == Append(trace, <<kind, site_idx, p>>)

\* lines 994-1011
Normalize ==
  /\ pc = "start"
  /\ valid_sites' = NormalizeSites(sites)
  /\ jobs_per_site' = JobsPerSite(results_wanted, Len(NormalizeSites(sites)))
  /\ all_jobs' = <<>>
  /\ pc' = "enter"
  /\ UNCHANGED <<args, probe, book, rated, playwright, browser, site_idx, page_num, site_jobs,
                 stopped, exc, unique_jobs, response, served, trace>>

\* line 1014: entering the with block starts playwright, or raises
EnterPlaywright ==
  /\ pc = "enter"
  /\ \/ /\ playwright' = "started"
        /\ pc' = "launch"
        /\ exc' = exc
     \/ /\ playwright' = playwright
        /\ exc' = "playwright driver failed to start"
        /\ pc' = "except"
  /\ trace' = Log("enter", 0)
  /\ UNCHANGED <<args, probe, book, rated, valid_sites, jobs_per_site, browser, site_idx, page_num,
                 site_jobs, stopped, all_jobs, unique_jobs, response, served>>

\* lines 1015-1022: p.chromium.launch
LaunchBrowser ==
  /\ pc = "launch"
  /\ \/ /\ browser' = "open"
        /\ pc' = "context"
        /\ exc' = exc
     \/ /\ browser' = browser
        /\ exc' = "executable doesn't exist"
        /\ pc' = "exit_with"
  /\ trace' = Log("launch", 0)
  /\ UNCHANGED <<args, probe, book, rated, valid_sites, jobs_per_site, playwright, site_idx,
                 page_num, site_jobs, stopped, all_jobs, unique_jobs, response,
                 served>>

\* lines 1024-1027: browser.new_context
NewContext ==
  /\ pc = "context"
  /\ \/ /\ pc' = "page"
        /\ exc' = exc
     \/ /\ exc' = "new_context failed"
        /\ pc' = "exit_with"
  /\ UNCHANGED <<args, probe, book, rated, valid_sites, jobs_per_site, playwright, browser,
                 site_idx, page_num, site_jobs, stopped, all_jobs, unique_jobs,
                 response, served, trace>>

\* lines 1029-1030: context.new_page, page.set_default_timeout
NewPage ==
  /\ pc = "page"
  /\ \/ /\ pc' = "loop"
        /\ site_idx' = 1
        /\ exc' = exc
     \/ /\ exc' = "new_page failed"
        /\ site_idx' = site_idx
        /\ pc' = "exit_with"
  /\ UNCHANGED <<args, probe, book, rated, valid_sites, jobs_per_site, playwright, browser,
                 page_num, site_jobs, stopped, all_jobs, unique_jobs, response,
                 served, trace>>

(***************************************************************************)
(* The site loop.                                                          *)
(***************************************************************************)
\* what the browser can serve for one navigation: a page whose listing
\* selector never appears, a page of a few cards, or an oversized page
Pages(site) ==
  {[loaded |-> FALSE, cards |-> <<>>]} \cup
  {[loaded |-> TRUE, cards |-> c] : c \in SeqsUpTo(Cards, MaxCards - served)} \cup
  {[loaded |-> TRUE, cards |-> BulkPage(JobsPerPage(site) + 1)]}

Served(page) == IF Len(page.cards) <= MaxCards THEN Len(page.cards) ELSE 0

InLoop == pc = "loop" /\ site_idx <= Len(valid_sites)

\* lines 1036-1086 and 1096-1098: _search_<site> raises before its own
\* try (building the URL); find_jobs logs it and continues
SiteRaises ==
  /\ InLoop
  /\ BuildUrlRaises(Site, days_ago)
  /\ trace' = trace \o <<<<"search", site_idx, 0>>, <<"raised", site_idx, 0>>>>
  /\ site_idx' = site_idx + 1
  /\ UNCHANGED <<args, probe, book, rated, pc, valid_sites, jobs_per_site, playwright, browser,
                 page_num, site_jobs, stopped, all_jobs, exc, unique_jobs,
                 response, served>>

\* _search_glassdoor, _search_google, _search_levelsfyi: one navigation
SearchSinglePage ==
  /\ InLoop
  /\ ~Paginated(Site)
  /\ ~BuildUrlRaises(Site, days_ago)
  /\ \/ /\ trace' = trace \o <<<<"search", site_idx, 0>>, <<"goto", site_idx, 0>>,
                               <<"error", site_idx, 0>>>>
        /\ site_jobs' = <<>>
        /\ served' = served
     \/ \E page \in Pages(Site) :
        /\ trace' = trace \o <<<<"search", site_idx, 0>>, <<"goto", site_idx, 0>>,
                               <<"wait", site_idx, 0>>, <<"extract", site_idx, 0>>>>
        /\ site_jobs' = Take(ExtractJobs(Site, page), jobs_per_site)
        /\ served' = served + Served(page)
  /\ pc' = "collect"
  /\ UNCHANGED <<args, probe, book, rated, valid_sites, jobs_per_site, playwright, browser,
                 site_idx, page_num, stopped, all_jobs, exc, unique_jobs,
                 response>>

\* _search_linkedin, _search_indeed: entry
BeginPaged ==
  /\ InLoop
  /\ Paginated(Site)
  /\ ~BuildUrlRaises(Site, days_ago)
  /\ site_jobs' = <<>>
  /\ page_num' = 0
  /\ stopped' = FALSE
  /\ trace' = Log("search", 0)
  /\ pc' = "paging"
  /\ UNCHANGED <<args, probe, book, rated, valid_sites, jobs_per_site, playwright, browser,
                 site_idx, all_jobs, exc, unique_jobs, response, served>>

MorePages ==
  /\ ~stopped
  /\ page_num < PagesNeeded(Site, jobs_per_site)
  /\ Len(site_jobs) < jobs_per_site

\* what one pass of the pagination loop does after an exception was caught
\* (lines 1176-1178, 1278-1280: continue)
AfterPageError(p) == [page_num |-> p + 1, stopped |-> FALSE]

\* mutant: continue in place of break
AfterBlock_Continue(p) == [page_num |-> p + 1, stopped |-> FALSE]

\* ... and after the auth wall or the CAPTCHA was found (break)
AfterBlock(p) == [page_num |-> p, stopped |-> TRUE]

\* one pass of the pagination loop (lines 1152-1178, 1254-1280)
PageVisit ==
  /\ pc = "paging"
  /\ MorePages
  /\ \/ \* page.goto raises
        /\ trace' = trace \o <<<<"goto", site_idx, page_num>>,
                               <<"error", site_idx, page_num>>>>
        /\ page_num' = AfterPageError(page_num).page_num
        /\ stopped' = AfterPageError(page_num).stopped
        /\ UNCHANGED <<site_jobs, served>>
     \/ \* the wait or the block check raises
        /\ trace' = trace \o <<<<"goto", site_idx, page_num>>,
                               <<"wait", site_idx, page_num>>,
                               <<"error", site_idx, page_num>>>>
        /\ page_num' = AfterPageError(page_num).page_num
        /\ stopped' = AfterPageError(page_num).stopped
        /\ UNCHANGED <<site_jobs, served>>
     \/ \* auth wall (LinkedIn), CAPTCHA (Indeed)
        /\ trace' = trace \o <<<<"goto", site_idx, page_num>>,
                               <<"wait", site_idx, page_num>>,
                               <<"block", site_idx, page_num>>>>
        /\ page_num' = AfterBlock(page_num).page_num
        /\ stopped' = AfterBlock(page_num).stopped
        /\ UNCHANGED <<site_jobs, served>>
     \/ \E page \in Pages(Site) :
        /\ trace' = trace \o <<<<"goto", site_idx, page_num>>,
                               <<"wait", site_idx, page_num>>,
                               <<"extract", site_idx, page_num>>>>
                          \o (IF page_num < PagesNeeded(Site, jobs_per_site) - 1
                              THEN <<<<"page_delay", site_idx, page_num>>>>
                              ELSE <<>>)
        /\ site_jobs' = site_jobs \o ExtractJobs(Site, page)
        /\ served' = served + Served(page)
        /\ page_num' = page_num + 1
        /\ stopped' = FALSE
  /\ UNCHANGED <<args, probe, book, rated, pc, valid_sites, jobs_per_site, playwright, browser,
                 site_idx, all_jobs, exc, unique_jobs, response>>

\* return all_jobs[:max_jobs] (lines 1180, 1282)
SearchReturn ==
  /\ pc = "paging"
  /\ ~MorePages
  /\ site_jobs' = Take(site_jobs, jobs_per_site)
  /\ pc' = "collect"
  /\ UNCHANGED <<args, probe, book, rated, valid_sites, jobs_per_site, playwright, browser,
                 site_idx, page_num, stopped, all_jobs, exc, unique_jobs,
                 response, served, trace>>

\* lines 1088-1094: all_jobs.extend(site_jobs), the delay between sites
Collect ==
  /\ pc = "collect"
  /\ all_jobs' = all_jobs \o site_jobs
  /\ trace' = Append(trace, <<"extend", site_idx, Len(site_jobs)>>)
                \o (IF Len(valid_sites) > 1
                    THEN <<<<"site_delay", site_idx, 0>>>> ELSE <<>>)
  /\ site_idx' = site_idx + 1
  /\ site_jobs' = <<>>
  /\ pc' = "loop"
  /\ UNCHANGED <<args, probe, book, rated, valid_sites, jobs_per_site, playwright, browser,
                 page_num, stopped, exc, unique_jobs, response, served>>

\* line 1100: browser.close(), which may raise
CloseBrowser ==
  /\ pc = "loop"
  /\ site_idx > Len(valid_sites)
  /\ \/ /\ browser' = "closed"
        /\ exc' = exc
     \/ /\ browser' = browser
        /\ exc' = "browser.close failed"
  /\ pc' = "exit_with"
  /\ UNCHANGED <<args, probe, book, rated, valid_sites, jobs_per_site, playwright, site_idx,
                 page_num, site_jobs, stopped, all_jobs, unique_jobs, response,
                 served, trace>>

\* line 1014: the with block is left, normally or by an exception
ExitWith ==
  /\ pc = "exit_with"
  /\ playwright' = "stopped"
  /\ browser' = BrowserAfterExit(browser)
  /\ pc' = IF exc # "" THEN "except" ELSE "dedup"
  /\ UNCHANGED <<args, probe, book, rated, valid_sites, jobs_per_site, site_idx, page_num,
                 site_jobs, stopped, all_jobs, exc, unique_jobs, response,
                 served, trace>>

\* lines 1102-1104
ExceptHandler ==
  /\ pc = "except"
  /\ response' = ErrorEnvelope(exc)
  /\ pc' = "done"
  /\ UNCHANGED <<args, probe, book, rated, valid_sites, jobs_per_site, playwright, browser,
                 site_idx, page_num, site_jobs, stopped, all_jobs, exc,
                 unique_jobs, served, trace>>

\* lines 1106-1115
DedupStep ==
  /\ pc = "dedup"
  /\ unique_jobs' = Dedup(all_jobs, results_wanted)
  /\ pc' = "rate"
  /\ UNCHANGED <<args, probe, book, rated, valid_sites, jobs_per_site, playwright, browser,
                 site_idx, page_num, site_jobs, stopped, all_jobs, exc,
                 response, served, trace>>

\* lines 1117-1141
RateAndReturn ==
  /\ pc = "rate"
  /\ rated' = unique_jobs
  /\ response' = NormalResponse(valid_sites, RateAndFilter(unique_jobs))
  /\ pc' = "done"
  /\ UNCHANGED <<args, probe, book, valid_sites, jobs_per_site, playwright, browser,
                 site_idx, page_num, site_jobs, stopped, all_jobs, exc,
                 unique_jobs, served, trace>>

Next ==
  \/ Normalize
  \/ EnterPlaywright
  \/ LaunchBrowser
  \/ NewContext
  \/ NewPage
  \/ SiteRaises
  \/ SearchSinglePage
  \/ BeginPaged
  \/ PageVisit
  \/ SearchReturn
  \/ Collect
  \/ CloseBrowser
  \/ ExitWith
  \/ ExceptHandler
  \/ DedupStep
  \/ RateAndReturn

Spec == Init /\ [][Next]_vars

\* find_jobs is one synchronous call: it keeps stepping until it returns
SpecFair == Spec /\ WF_vars(Next)

(***************************************************************************)
(* The helpers applied on their own: a helper is given one input drawn     *)
(* from a bounded set and returns its result; no find_jobs run is going    *)
(* on.                                                                     *)
(***************************************************************************)
MaxText == 4

SalaryAlphabet == {"$", "1", "9", "0", "k", ".", ","}

\* the texts of test_salary_penalty, and an upper-case K
SalaryExamples ==
  {<<"$", "2", "5", "0", ",", "0", "0", "0">>, <<"2", "0", "0", "k">>, <<"$", "1", "9", "0", ",", "0", "0", "0">>, <<"$", "1", "5", "0", "k", " ", "-", " ", "$", "1", "8", "0", "k">>, <<"1", "0", "0", "k">>,
   <<"$", "5", "0", "/", "h", "r">>, <<"$", "1", "0", "0", "/", "h", "r">>, <<>>, <<"$", "1", "5", "0", "K">>}

SalaryTexts == SeqsUpTo(SalaryAlphabet, MaxText) \cup SalaryExamples

\* pairs of amounts, with and without "k", for comparing their penalties
AmountAlphabet == {"1", "9", "0", "k"}

SalaryPairs ==
  SeqsUpTo(AmountAlphabet, MaxText - 1) \X SeqsUpTo(AmountAlphabet, MaxText - 1)

Probe(op, in, out) == [op |-> op, in |-> in, out |-> out, done |-> FALSE]

\* a job dict as calculate_rating reads it; an absent key reads as empty
RatedJob(title, snippet, location, salary, easy_apply, date_posted, company, remote) ==
  [Job(title, company, location, <<>>, <<>>, date_posted, salary, snippet, remote)
     EXCEPT !.easy_apply = easy_apply]

\* the jobs of test_job_rating, test_recent_job_rating, test_best_place_rating
job_perfect ==
  RatedJob(<<"S", "e", "n", "i", "o", "r", " ", "C", "#", " ", "C", "+", "+", " ", "D", "e", "v", "e", "l", "o", "p", "e", "r", " ", "C", "o", "n", "t", "r", "a", "c", "t">>, <<"W", "e", " ", "n", "e", "e", "d", " ", "C", "#", " ", "a", "n", "d", " ", "C", "+", "+", " ", "e", "x", "p", "e", "r", "t", "s", ".">>,
           <<"R", "e", "m", "o", "t", "e">>, <<"$", "2", "5", "0", "k">>, TRUE, <<>>, <<>>, "none")
job_bad ==
  RatedJob(<<"J", "u", "n", "i", "o", "r", " ", "J", "a", "v", "a", " ", "D", "e", "v">>, <<"J", "a", "v", "a", " ", "o", "n", "l", "y", ".">>, <<"A", "u", "s", "t", "i", "n", ",", " ", "T", "X">>, <<"$", "1", "0", "0", "k">>,
           FALSE, <<>>, <<>>, "none")
job_hybrid ==
  RatedJob(<<"C", "#", " ", "D", "e", "v", "e", "l", "o", "p", "e", "r">>, <<"C", "o", "d", "i", "n", "g", " ", "i", "n", " ", "C", "#">>, <<"H", "y", "b", "r", "i", "d", " ", "-", " ", "N", "e", "w", " ", "Y", "o", "r", "k">>, <<"$", "1", "5", "0", "k">>,
           FALSE, <<>>, <<>>, "none")
job_recent ==
  RatedJob(<<"C", "+", "+", " ", "D", "e", "v">>, <<"C", "+", "+">>, <<"R", "e", "m", "o", "t", "e">>, <<"$", "2", "0", "0", "k">>, FALSE, <<"2", " ", "d", "a", "y", "s", " ", "a", "g", "o">>,
           <<>>, "none")
job_old ==
  RatedJob(<<"C", "+", "+", " ", "D", "e", "v">>, <<"C", "+", "+">>, <<"R", "e", "m", "o", "t", "e">>, <<"$", "2", "0", "0", "k">>, FALSE, <<"3", "0", " ", "d", "a", "y", "s", " ", "a", "g", "o">>,
           <<>>, "none")
job_google ==
  RatedJob(<<"S", "o", "f", "t", "w", "a", "r", "e", " ", "E", "n", "g", "i", "n", "e", "e", "r">>, <<>>, <<"M", "o", "u", "n", "t", "a", "i", "n", " ", "V", "i", "e", "w", ",", " ", "C", "A">>, <<"$", "2", "5", "0", "k">>, FALSE,
           <<>>, <<"G", "o", "o", "g", "l", "e">>, "none")

TestJobs == {job_perfect, job_bad, job_hybrid, job_recent, job_old, job_google}

\* a job that meets every criterion, and an onsite job that pays nothing
job_best ==
  RatedJob(<<"C", "#", " ", "C", "+", "+", " ", "C", "o", "n", "t", "r", "a", "c", "t">>, <<>>, <<"R", "e", "m", "o", "t", "e">>, <<"$", "2", "5", "0", "k">>, TRUE, <<"T", "o", "d", "a", "y">>,
           <<"G", "o", "o", "g", "l", "e">>, "true")

job_worst ==
  RatedJob(<<"D", "e", "v">>, <<>>, <<"A", "u", "s", "t", "i", "n", ",", " ", "T", "X">>, <<"$", "0">>, FALSE, <<>>, <<"A", "c", "m", "e">>, "none")

RatingJobs ==
  TestJobs \cup {job_best, job_worst} \cup
  {RatedJob(t, s, l, p, e, d, c, r) :
     t \in {<<"C", "#", " ", "D", "e", "v">>, <<"D", "e", "v", " ", "C">>, <<"C", "o", "n", "t", "r", "a", "c", "t", " ", "c", "p", "p">>},
     s \in {<<>>, <<"s", "h", "a", "r", "p", " ", "C", "+", "+">>, <<"c", "o", "n", "t", "r", "a", "c", "t">>},
     l \in {<<"R", "e", "m", "o", "t", "e">>, <<"H", "y", "b", "r", "i", "d", " ", "-", " ", "N", "Y">>, <<"A", "u", "s", "t", "i", "n", ",", " ", "T", "X">>},
     p \in {<<>>, <<"$", "1", "0", "0", "k">>},
     e \in BOOLEAN,
     d \in {<<>>, <<"2", " ", "d", "a", "y", "s", " ", "a", "g", "o">>},
     c \in {<<"G", "o", "o", "g", "l", "e">>, <<"A", "c", "m", "e">>, <<"G", "o", "o", "g", "l", "e", " ", "I", "n", "c">>, <<"A", "d", "o", "b", "e">>},
     r \in {"true", "hybrid", "none"}}

\* date texts: relative phrases, short forms, absolute dates
DateTexts ==
  {<<>>, <<"J", "u", "s", "t", " ", "n", "o", "w">>, <<"T", "o", "d", "a", "y">>, <<"2", " ", "h", "o", "u", "r", "s", " ", "a", "g", "o">>, <<"5", " ", "m", "i", "n", "u", "t", "e", "s", " ", "a", "g", "o">>, <<"N", "e", "w">>,
   <<"1", " ", "d", "a", "y", " ", "a", "g", "o">>, <<"2", " ", "d", "a", "y", "s", " ", "a", "g", "o">>, <<"3", " ", "d", "a", "y", "s", " ", "a", "g", "o">>, <<"4", " ", "d", "a", "y", "s", " ", "a", "g", "o">>,
   <<"3", "0", " ", "d", "a", "y", "s", " ", "a", "g", "o">>, <<"P", "o", "s", "t", "e", "d", " ", "3", "0", "+", " ", "d", "a", "y", "s", " ", "a", "g", "o">>, <<"3", "d">>, <<"7", "d">>, <<"1", " ", "w", "e", "e", "k", " ", "a", "g", "o">>,
   <<"2", " ", "m", "o", "n", "t", "h", "s", " ", "a", "g", "o">>, <<"3", " ", "D", "e", "c", " ", "2", "0", "2", "5">>, <<"1", "2", " ", "D", "e", "c", " ", "2", "0", "2", "5">>, <<"D", "e", "c", " ", "3", ",", " ", "2", "0", "2", "5">>,
   <<"2", "0", "2", "5", "-", "1", "2", "-", "0", "3">>, <<"2", "0", "2", "5", "-", "1", "2", "-", "0", "3", "T", "1", "0", ":", "1", "5", ":", "0", "0", "Z">>}

MaxPage == 3

\* cardA again, its link carrying another tracking parameter
cardA3 == [cardA EXCEPT !.href = <<"/", "a", "?", "t", "=", "2">>]
\* a card whose title element holds blanks only
cardW == Card(<<" ", " ">>, <<"A", "c", "m", "e">>, <<"R", "e", "m", "o", "t", "e">>, <<"/", "w">>, <<>>, <<>>, <<>>, <<>>, FALSE)

PageCards == Cards \cup {cardA3, cardW}

\* a loaded listing page of a site
PageInputs ==
  {[site |-> s, page |-> [loaded |-> TRUE, cards |-> c]] :
     s \in SUPPORTED_SITES, c \in SeqsUpTo(PageCards, MaxPage)}

ProbeInputs ==
  {Probe("salary", t, 0) : t \in SalaryTexts}
    \cup {Probe("salary pair", x, <<0, 0>>) : x \in SalaryPairs}
    \cup {Probe("extract", x, <<>>) : x \in PageInputs}
    \cup {Probe("recent", t, FALSE) : t \in DateTexts}
    \cup {Probe("rating", j, 0) : j \in RatingJobs}
    \cup {Probe("mock rating", j, <<0, 0>>) : j \in RatingJobs}

run == <<pc, results_wanted, sites, days_ago, valid_sites, jobs_per_site,
         playwright, browser, site_idx, page_num, site_jobs, stopped,
         all_jobs, exc, unique_jobs, response, served, trace, rated>>

InitHelpers ==
  /\ pc = "idle"
  /\ results_wanted = 1
  /\ sites = [none |-> TRUE, list |-> <<>>]
  /\ days_ago = "int"
  /\ valid_sites = <<>>
  /\ jobs_per_site = 0
  /\ playwright = "none"
  /\ browser = "none"
  /\ site_idx = 0
  /\ page_num = 0
  /\ site_jobs = <<>>
  /\ stopped = FALSE
  /\ all_jobs = <<>>
  /\ exc = ""
  /\ unique_jobs = <<>>
  /\ response = NoResponse
  /\ served = 0
  /\ trace = <<>>
  /\ rated = <<>>
  /\ probe \in ProbeInputs
  /\ NoBook

Returned(value) == [probe EXCEPT !.out = value, !.done = TRUE]

\* a call of _calculate_salary_penalty
CallSalaryPenalty ==
  /\ probe.op = "salary"
  /\ ~probe.done
  /\ probe' = Returned(_calculate_salary_penalty(probe.in))
  /\ UNCHANGED <<run, book>>

\* two calls of _calculate_salary_penalty, one after the other
CallSalaryPenaltyTwice ==
  /\ probe.op = "salary pair"
  /\ ~probe.done
  /\ probe' = Returned(<<_calculate_salary_penalty(probe.in[1]),
                         _calculate_salary_penalty(probe.in[2])>>)
  /\ UNCHANGED <<run, book>>

\* a call of calculate_rating
CallRating ==
  /\ probe.op = "rating"
  /\ ~probe.done
  /\ probe' = Returned(calculate_rating(probe.in))
  /\ UNCHANGED <<run, book>>

\* the mock and JobSpyTools rate the same job
CallMockRating ==
  /\ probe.op = "mock rating"
  /\ ~probe.done
  /\ probe' = Returned(<<MockJobSpyTools_calculate_rating(probe.in),
                         calculate_rating(probe.in)>>)
  /\ UNCHANGED <<run, book>>

\* a call of _is_recent_job
CallIsRecent ==
  /\ probe.op = "recent"
  /\ ~probe.done
  /\ probe' = Returned(_is_recent_job(probe.in))
  /\ UNCHANGED <<run, book>>

\* a call of _extract_<site>_jobs on a loaded page
CallExtract ==
  /\ probe.op = "extract"
  /\ ~probe.done
  /\ probe' = Returned(ExtractJobs(probe.in.site, probe.in.page))
  /\ UNCHANGED <<run, book>>

NextHelpers ==
  \/ CallSalaryPenalty
  \/ CallSalaryPenaltyTwice
  \/ CallRating
  \/ CallMockRating
  \/ CallIsRecent
  \/ CallExtract

SpecHelpers == InitHelpers /\ [][NextHelpers]_vars

\* a find_jobs run, or a helper applied on its own
InitAll == Init \/ InitHelpers

NextAll == Next \/ NextHelpers

SpecAll == InitAll /\ [][NextAll]_vars

(***************************************************************************)
(* GoogleSheetsTools (src/tools/google_sheets.py): the job sheet.  A cell  *)
(* value is a string; a row is the sequence of its cells.  Every call of   *)
(* the Sheets API may raise.                                               *)
(***************************************************************************)
MaxCalls == 4

EXPECTED_HEADERS ==
  <<"Date", "Site", "Role", "Company", "Type", "Posting Link", "URL",
    "Status", "Application Date", "Resume", "Cover Letter", "Notes">>

STATUS_COL == 6
NOTES_COL == 7

SheetUrls == {"u1", "u2"}
SheetSources == {"linkedin", "New"}
SheetNotes == {"", "u2"}
SheetStatuses == {"New", "Applied"}

\* mutant of FindCell: the url is never found
FindCell_Never(rows, query) == 0

\* worksheet.find(query).row: the row of the first cell, rows first, whose
\* value is query; 0 for None
FindCell(rows, query) ==
  LET hits == {r \in 1..Len(rows) : \E c \in 1..Len(rows[r]) : rows[r][c] = query}
  IN IF hits = {} THEN 0 ELSE CHOOSE r \in hits : \A q \in hits : r <= q

\* _ensure_headers; ok = FALSE when row_values or append_row raised
EnsureHeaders(rows, ok) ==
  IF ok /\ rows = <<>> THEN <<EXPECTED_HEADERS>> ELSE rows

\* the row add_job appends (lines 145-156)
JobRow(company, role, url, location, notes, source) ==
  <<"today", company, role, location, url, "New", notes, source>>

\* one record of get_all_records: the cells of row under the header keys;
\* of two equal keys the later one counts
RecordOf(header, row) ==
  [h \in {header[k] : k \in 1..Len(header)} |->
     LET k == CHOOSE k \in 1..Len(header) :
                 header[k] = h /\ \A q \in 1..Len(header) : header[q] = h => q <= k
     IN IF k <= Len(row) THEN row[k] ELSE ""]

UniqueCells(row) == \A i, j \in 1..Len(row) : row[i] = row[j] => i = j

\* worksheet.get_all_records(): row 1 is the header
AllRecords(rows) ==
  IF rows = <<>> THEN <<>>
  ELSE [i \in 1..(Len(rows) - 1) |-> RecordOf(rows[1], rows[i + 1])]

\* job.get("Status")
StatusOf(job) == IF "Status" \in DOMAIN job THEN job["Status"] ELSE ""

\* str.lower on the status values
StatusLower(s) ==
  CASE s = "New" -> "new" [] s = "Applied" -> "applied" [] OTHER -> s

\* updated_notes (lines 309-313)
UpdatedNotes(existing_notes, notes) ==
  IF existing_notes # "" THEN existing_notes \o " [now] " \o notes ELSE notes

InitSheets ==
  /\ pc = "sheets"
  /\ results_wanted = 1
  /\ sites = [none |-> TRUE, list |-> <<>>]
  /\ days_ago = "int"
  /\ valid_sites = <<>>
  /\ jobs_per_site = 0
  /\ playwright = "none"
  /\ browser = "none"
  /\ site_idx = 0
  /\ page_num = 0
  /\ site_jobs = <<>>
  /\ stopped = FALSE
  /\ all_jobs = <<>>
  /\ exc = ""
  /\ unique_jobs = <<>>
  /\ response = NoResponse
  /\ served = 0
  /\ trace = <<>>
  /\ rated = <<>>
  /\ probe = NoProbe
  /\ sh \in BOOLEAN
  /\ sheet \in {<<>>, <<EXPECTED_HEADERS>>}
  /\ reply = NoReply
  /\ calls = 0

CanCall == pc = "sheets" /\ calls < MaxCalls

\* self._get_worksheet() returned a worksheet
HasWorksheet(api) == sh /\ api # "sheet1"

\* add_job (lines 128-160)
AddJob ==
  /\ CanCall
  /\ \E url \in SheetUrls, source \in SheetSources, notes \in SheetNotes,
        headers_ok \in BOOLEAN, api \in {"ok", "sheet1", "find", "append_row"} :
       LET rows == IF HasWorksheet(api) THEN EnsureHeaders(sheet, headers_ok)
                   ELSE sheet
           row  == FindCell(rows, url)
           kind == IF ~HasWorksheet(api) THEN "no worksheet"
                   ELSE IF api = "find" THEN "error"
                   ELSE IF row # 0 THEN "exists"
                   ELSE IF api = "append_row" THEN "error"
                   ELSE "added"
       IN /\ sheet' = IF kind = "added"
                      THEN Append(rows, JobRow("Acme", "Dev", url, "Remote", notes, source))
                      ELSE rows
          /\ reply' = [op |-> "add_job", url |-> url, kind |-> kind,
                       row |-> IF kind = "exists" THEN row ELSE 0]
  /\ calls' = calls + 1
  /\ UNCHANGED <<run, probe, sh>>

\* get_new_jobs (lines 170-180)
GetNewJobs ==
  /\ CanCall
  /\ \E api \in {"ok", "sheet1", "get_all_records"} :
       reply' =
         IF ~HasWorksheet(api) THEN [op |-> "get_new_jobs", kind |-> "no worksheet"]
         ELSE IF api = "get_all_records" \/ (sheet # <<>> /\ ~UniqueCells(sheet[1]))
         THEN [op |-> "get_new_jobs", kind |-> "error"]
         ELSE [op |-> "get_new_jobs", kind |-> "ok",
               jobs |-> SelectSeq(AllRecords(sheet),
                                  LAMBDA job : StatusOf(job) = "New")]
  /\ calls' = calls + 1
  /\ UNCHANGED <<run, probe, sh, sheet>>

\* get_all_jobs (lines 192-217); status "" stands for None
GetAllJobs ==
  /\ CanCall
  /\ \E status \in {"", "new", "Applied"}, api \in {"ok", "sheet1", "get_all_records"} :
       reply' =
         IF ~HasWorksheet(api) THEN [op |-> "get_all_jobs", kind |-> "no worksheet"]
         ELSE IF api = "get_all_records" \/ (sheet # <<>> /\ ~UniqueCells(sheet[1]))
         THEN [op |-> "get_all_jobs", kind |-> "error"]
         ELSE [op |-> "get_all_jobs", kind |-> "ok",
               jobs |-> IF status = "" THEN AllRecords(sheet)
                        ELSE SelectSeq(AllRecords(sheet),
                               LAMBDA job : StatusLower(StatusOf(job)) = StatusLower(status))]
  /\ calls' = calls + 1
  /\ UNCHANGED <<run, probe, sh, sheet>>

\* check_job_exists (lines 229-258)
CheckJobExists ==
  /\ CanCall
  /\ \E url \in SheetUrls, api \in {"ok", "sheet1", "find"} :
       reply' =
         IF ~HasWorksheet(api) THEN [op |-> "check_job_exists", kind |-> "no worksheet"]
         ELSE IF api = "find" THEN [op |-> "check_job_exists", kind |-> "error"]
         ELSE IF FindCell(sheet, url) = 0
         THEN [op |-> "check_job_exists", kind |-> "ok", exists |-> FALSE]
         ELSE [op |-> "check_job_exists", kind |-> "ok", exists |-> TRUE,
               row |-> FindCell(sheet, url), data |-> sheet[FindCell(sheet, url)]]
  /\ calls' = calls + 1
  /\ UNCHANGED <<run, probe, sh, sheet>>

\* update_job_status (lines 287-321)
UpdateJobStatus ==
  /\ CanCall
  /\ \E url \in SheetUrls, new_status \in SheetStatuses, notes \in SheetNotes,
        api \in {"ok", "sheet1", "find", "update_status", "update_notes"} :
       LET row  == FindCell(sheet, url)
           kind == IF ~HasWorksheet(api) THEN "no worksheet"
                   ELSE IF api = "find" THEN "error"
                   ELSE IF row = 0 THEN "not found"
                   ELSE IF api = "update_status" THEN "error"
                   ELSE "updated"
           with_status == [sheet EXCEPT ![row][STATUS_COL] = new_status]
       IN /\ sheet' = IF kind # "updated" THEN sheet
                      ELSE IF notes # "" /\ api # "update_notes"
                      THEN [with_status EXCEPT ![row][NOTES_COL] = UpdatedNotes(@, notes)]
                      ELSE with_status
          /\ reply' = [op |-> "update_job_status", url |-> url, kind |-> kind,
                       status |-> new_status]
  /\ calls' = calls + 1
  /\ UNCHANGED <<run, probe, sh>>

NextSheets ==
  \/ AddJob
  \/ GetNewJobs
  \/ GetAllJobs
  \/ CheckJobExists
  \/ UpdateJobStatus

SpecSheets == InitSheets /\ [][NextSheets]_vars

(***************************************************************************)
(* Vocabulary of the properties.                                           *)
(***************************************************************************)
Done == pc = "done"

NormalDone == pc = "done" /\ response.kind = "ok"

\* a returned job without its rating key
Unrated(job) ==
  [title |-> job.title, company |-> job.company, location |-> job.location,
   url |-> job.url, source |-> job.source, date_posted |-> job.date_posted,
   salary |-> job.salary, snippet |-> job.snippet, remote |-> job.remote,
   easy_apply |-> job.easy_apply]

UnratedAll(jobs) == [i \in 1..Len(jobs) |-> Unrated(jobs[i])]

\* the non-empty urls of a posting list
UrlsOf(jobs) == {jobs[i].url : i \in 1..Len(jobs)} \ {<<>>}

\* positions of the first occurrence of each non-empty url
FirstIdx(jobs) ==
  {i \in 1..Len(jobs) :
     jobs[i].url # <<>> /\ \A j \in 1..(i - 1) : jobs[j].url # jobs[i].url}

\* the k-th smallest element of a set of numbers
Nth(S, k) == CHOOSE i \in S : Cardinality({j \in S : j < i}) = k - 1

\* the first n url-distinct postings of a list, in list order
FirstDistinct(jobs, n) ==
  LET m == IF Cardinality(FirstIdx(jobs)) < n
           THEN Cardinality(FirstIdx(jobs)) ELSE n
  IN [k \in 1..m |-> jobs[Nth(FirstIdx(jobs), k)]]

\* position in the merged list of the first posting with this url
FirstPos(url) ==
  CHOOSE i \in 1..Len(all_jobs) :
     all_jobs[i].url = url /\ \A j \in 1..(i - 1) : all_jobs[j].url # url

EventsOf(kinds) == SelectSeq(trace, LAMBDA e : e[1] \in kinds)

HasEvent(kind, i, p) == \E k \in 1..Len(trace) : trace[k] = <<kind, i, p>>

(***************************************************************************)
(* C1 (as stated): in a run with results_wanted = N whose merged list      *)
(* holds more than N distinct urls, the jobs list of the response holds    *)
(* exactly N postings, the first N url-distinct postings of the merged     *)
(* list in merged order.                                                   *)
(***************************************************************************)
C1_ExactlyWantedReturned ==
  (NormalDone /\ Cardinality(UrlsOf(all_jobs)) > results_wanted)
    => /\ Len(response.jobs) = results_wanted
       /\ UnratedAll(response.jobs) = FirstDistinct(all_jobs, results_wanted)

(***************************************************************************)
(* C1 (amended): in such a run the dedup step keeps exactly N postings,    *)
(* the first N url-distinct postings of the merged list in merged order,   *)
(* and the jobs list of the response holds those of them whose rating is   *)
(* at least MIN_JOB_RATING, in the same order: N postings when all N pass  *)
(* the rating filter, fewer otherwise.                                     *)
(***************************************************************************)
C1_WantedKeptThenFiltered ==
  (NormalDone /\ Cardinality(UrlsOf(all_jobs)) > results_wanted)
    => /\ Len(unique_jobs) = results_wanted
       /\ unique_jobs = FirstDistinct(all_jobs, results_wanted)
       /\ UnratedAll(response.jobs) =
            SelectSeq(FirstDistinct(all_jobs, results_wanted),
                      LAMBDA job : calculate_rating(job) >= MIN_JOB_RATING)
       /\ Len(response.jobs) <= results_wanted
       /\ (\A i \in 1..Len(unique_jobs) :
              calculate_rating(unique_jobs[i]) >= MIN_JOB_RATING)
            => Len(response.jobs) = results_wanted

\* a run over the cap in which the rating filter removed a kept posting
C1_Witness ==
  /\ NormalDone
  /\ Cardinality(UrlsOf(all_jobs)) > results_wanted
  /\ Len(unique_jobs) = results_wanted
  /\ Len(response.jobs) < results_wanted
  /\ Len(response.jobs) > 0

(***************************************************************************)
(* C2: a run never ends with its browser open: when find_jobs has          *)
(* returned, on whatever path, the browser it launched is closed and       *)
(* playwright is stopped.                                                  *)
(***************************************************************************)
C2_BrowserClosedOnExit ==
  Done => /\ browser \in {"none", "closed"}
          /\ playwright \in {"none", "stopped"}
          /\ HasEvent("launch", 0, 0) /\ exc # "executable doesn't exist"
               => browser = "closed"

\* the run failed after the browser was launched and yet ended with the
\* browser closed
C2_Witness ==
  /\ Done
  /\ exc \in {"new_context failed", "new_page failed"}
  /\ browser = "closed"
  /\ response.kind = "error"

(***************************************************************************)
(* More vocabulary: what the trace says about the sites of a run.          *)
(***************************************************************************)
\* the search of site index i failed: an exception was caught on one of
\* its pages, or escaped from _search_<site> to find_jobs
SiteFailed(i) ==
  \E k \in 1..Len(trace) : trace[k][1] \in {"error", "raised"} /\ trace[k][2] = i

\* site index i was blocked on its first page
BlockedOnFirstPage(i) == HasEvent("block", i, 0)

\* the site indexes whose search was started, in the order of the starts
SearchOrder ==
  [k \in 1..Len(EventsOf({"search"})) |-> EventsOf({"search"})[k][2]]

\* number of postings site index i added to the merged list
RECURSIVE ExtendedBy(_, _)
ExtendedBy(i, k) ==
  IF k = 0 THEN 0
  ELSE ExtendedBy(i, k - 1)
         + (IF trace[k][1] = "extend" /\ trace[k][2] = i THEN trace[k][3] ELSE 0)

Contribution(i) == ExtendedBy(i, Len(trace))

RECURSIVE SumTo(_)
SumTo(n) == IF n = 0 THEN 0 ELSE SumTo(n - 1) + Contribution(n)

\* pages of site index i that were navigated
PagesVisited(i) ==
  {trace[k][3] : k \in {m \in 1..Len(trace) : trace[m][1] = "goto" /\ trace[m][2] = i}}

(***************************************************************************)
(* C3: a run in which the search of a site failed is not aborted: every    *)
(* site of the normalised list was attempted, in list order, the merged    *)
(* list holds what the sites collected, and find_jobs returned a normal    *)
(* response, not the error envelope.                                       *)
(***************************************************************************)
C3_SiteFailureDoesNotAbort ==
  (Done /\ \E i \in 1..Len(valid_sites) : SiteFailed(i))
    => /\ SearchOrder = [k \in 1..Len(valid_sites) |-> k]
       /\ Len(all_jobs) = SumTo(Len(valid_sites))
       /\ response.kind = "ok"

(***************************************************************************)
(* C4: when a site was blocked (auth wall, CAPTCHA) on its first page,     *)
(* the site contributed no posting, no further page of it was navigated,   *)
(* and the run returned a normal response that lists the blocked site in   *)
(* sites_searched and holds the postings of the other sites.               *)
(***************************************************************************)
C4_BlockedSiteIsolated ==
  \A i \in 1..Len(valid_sites) :
    (Done /\ BlockedOnFirstPage(i))
      => /\ Contribution(i) = 0
         /\ PagesVisited(i) = {0}
         /\ response.kind = "ok"
         /\ \E k \in 1..Len(response.sites_searched) :
               response.sites_searched[k] = valid_sites[i]
         /\ Len(all_jobs) = SumTo(Len(valid_sites))
         /\ response.jobs = RateAndFilter(Dedup(all_jobs, results_wanted))

(***************************************************************************)
(* C5 (as stated): pagination of a site stops as soon as the per-site      *)
(* quota is reached, a block condition is signalled, or an error occurs    *)
(* on a page: after any of the three no further page of that site is       *)
(* navigated.                                                              *)
(***************************************************************************)
NoPageAfter(kinds) ==
  \A k \in 1..Len(trace) : \A m \in (k + 1)..Len(trace) :
     (trace[k][1] \in kinds /\ trace[m][1] = "goto") => trace[m][2] # trace[k][2]

\* a page is navigated only while the quota is not reached
NavigatesBelowQuota ==
  (pc = "paging" /\ trace' # trace) => (Len(site_jobs) < jobs_per_site /\ ~stopped)

C5_StopsOnQuotaBlockOrError ==
  [](NoPageAfter({"block", "error"})) /\ [][NavigatesBelowQuota]_vars

(***************************************************************************)
(* C5 (amended): pagination of a site stops as soon as the per-site quota  *)
(* is reached or a block condition is signalled: after either no further   *)
(* page of that site is navigated.  An error on a page does not stop it:   *)
(* the loop goes on with the next page, and a search that met no block     *)
(* and did not reach the quota has navigated all its                       *)
(* ceil(quota / page size) pages.                                          *)
(***************************************************************************)
AllPagesUnlessStopped ==
  (/\ pc = "collect"
   /\ Paginated(Site)
   /\ ~\E p \in PagesVisited(site_idx) : HasEvent("block", site_idx, p)
   /\ Len(site_jobs) < jobs_per_site)
    => PagesVisited(site_idx) = 0..(PagesNeeded(Site, jobs_per_site) - 1)

C5_StopsOnQuotaOrBlock ==
  /\ [](NoPageAfter({"block"}) /\ AllPagesUnlessStopped)
  /\ [][NavigatesBelowQuota]_vars

\* a search whose first page failed and whose second page was navigated
C5_Witness ==
  /\ pc = "collect"
  /\ Paginated(Site)
  /\ HasEvent("error", site_idx, 0)
  /\ HasEvent("goto", site_idx, 1)

(***************************************************************************)
(* C6: no two postings of a response have the same url, and each returned  *)
(* posting is the first posting of the merged list that has its url.       *)
(***************************************************************************)
C6_FirstOccurrenceKept ==
  NormalDone =>
    /\ \A a, b \in 1..Len(response.jobs) :
          a # b => response.jobs[a].url # response.jobs[b].url
    /\ \A a \in 1..Len(response.jobs) :
          /\ response.jobs[a].url # <<>>
          /\ Unrated(response.jobs[a]) = all_jobs[FirstPos(response.jobs[a].url)]

\* the merged list held two different postings with one url, and the
\* response returned that url
C6_Witness ==
  /\ NormalDone
  /\ \E i, j \in 1..Len(all_jobs) :
        /\ i < j
        /\ all_jobs[i].url = all_jobs[j].url
        /\ all_jobs[i].source # all_jobs[j].source
        /\ \E a \in 1..Len(response.jobs) : response.jobs[a].url = all_jobs[i].url

(***************************************************************************)
(* C7: the deduplicated list and the returned list keep the merged order:  *)
(* of two postings in them the one whose url occurs first in the merged    *)
(* list comes first; nothing is re-sorted.                                 *)
(***************************************************************************)
InMergedOrder(jobs) ==
  \A a, b \in 1..Len(jobs) :
     a < b => FirstPos(jobs[a].url) < FirstPos(jobs[b].url)

C7_MergedOrderKept ==
  /\ InMergedOrder(unique_jobs)
  /\ NormalDone => InMergedOrder(response.jobs)

\* a response whose second job is rated higher than its first
C7_Witness ==
  /\ NormalDone
  /\ Len(response.jobs) >= 2
  /\ response.jobs[1].rating < response.jobs[2].rating
  /\ Len(all_jobs) > Len(unique_jobs)

(***************************************************************************)
(* C8: the dedup-and-cap step is idempotent: applied to its own output it  *)
(* returns that output.                                                    *)
(***************************************************************************)
C8_DedupIdempotent ==
  Dedup(unique_jobs, results_wanted) = unique_jobs

\* the step dropped something and kept at least two postings
C8_Witness ==
  /\ pc = "rate"
  /\ Len(unique_jobs) >= 2
  /\ Len(all_jobs) > Len(unique_jobs)
  /\ Cardinality(UrlsOf(all_jobs)) > Len(unique_jobs)

(***************************************************************************)
(* C9: in a normal response every job carries its computed rating and      *)
(* that rating is at least MIN_JOB_RATING, no deduplicated posting rated   *)
(* below it is returned, and total_found is the length of jobs.            *)
(***************************************************************************)
C9_RatingFilter ==
  NormalDone =>
    /\ \A a \in 1..Len(response.jobs) :
          /\ response.jobs[a].rating = calculate_rating(Unrated(response.jobs[a]))
          /\ response.jobs[a].rating >= MIN_JOB_RATING
    /\ \A i \in 1..Len(unique_jobs) :
          calculate_rating(unique_jobs[i]) < MIN_JOB_RATING
            => \A a \in 1..Len(response.jobs) :
                  Unrated(response.jobs[a]) # unique_jobs[i]
    /\ response.total_found = Len(response.jobs)

\* the filter dropped a posting and returned another
C9_Witness ==
  /\ NormalDone
  /\ \E i \in 1..Len(unique_jobs) : calculate_rating(unique_jobs[i]) < MIN_JOB_RATING
  /\ Len(response.jobs) >= 1

(***************************************************************************)
(* C10: when playwright or the browser cannot be started, find_jobs        *)
(* returns the error envelope, with a non-empty error text and an empty    *)
(* jobs list; no site is searched and the launch is not tried again.       *)
(***************************************************************************)
AcquireFailures == {"playwright driver failed to start", "executable doesn't exist"}

C10_LaunchFailureEnvelope ==
  exc \in AcquireFailures =>
    /\ EventsOf({"search", "goto"}) = <<>>
    /\ Len(EventsOf({"enter"})) <= 1
    /\ Len(EventsOf({"launch"})) <= 1
    /\ all_jobs = <<>>
    /\ pc \in {"exit_with", "except", "done"}
    /\ Done => /\ response.kind = "error"
               /\ response.error = exc
               /\ response.error # ""
               /\ response.jobs = <<>>

\* the browser executable was missing and the run has returned
C10_Witness ==
  /\ Done
  /\ exc = "executable doesn't exist"
  /\ response.kind = "error"

(***************************************************************************)
(* C11: the error envelope is returned only when acquiring playwright,     *)
(* the browser, the context or the page failed; once the page is acquired  *)
(* every run ends in a normal response that keeps the collected postings,  *)
(* whatever fails at card, page or site level or after the site loop.      *)
(***************************************************************************)
PageAcquired == site_idx >= 1

C11_EnvelopeOnlyOnAcquisitionFailure ==
  (Done /\ PageAcquired) =>
    /\ response.kind = "ok"
    /\ UnratedAll(response.jobs) =
         UnratedAll(RateAndFilter(Dedup(all_jobs, results_wanted)))

(***************************************************************************)
(* C12: the normalised site list is never empty, holds only recognised     *)
(* site identifiers, namely the recognised entries of the argument in the  *)
(* argument's order, and is exactly <<"linkedin">> when the argument is    *)
(* None, empty or holds no recognised entry.                               *)
(***************************************************************************)
RecognizedIdx(list) == {i \in 1..Len(list) : Lower(list[i]) \in SUPPORTED_SITES}

C12_NormalizedSites ==
  pc # "start" =>
    LET rec == IF sites.none THEN {} ELSE RecognizedIdx(sites.list)
    IN /\ valid_sites # <<>>
       /\ \A i \in 1..Len(valid_sites) : valid_sites[i] \in SUPPORTED_SITES
       /\ IF rec = {}
          THEN valid_sites = <<<<"l", "i", "n", "k", "e", "d", "i", "n">>>>
          ELSE /\ Len(valid_sites) = Cardinality(rec)
               /\ \A k \in 1..Len(valid_sites) :
                     valid_sites[k] = Lower(sites.list[Nth(rec, k)])

\* a mixed argument: an unknown entry was dropped between two recognised ones
C12_Witness ==
  /\ pc # "start"
  /\ ~sites.none
  /\ Len(valid_sites) >= 2
  /\ Len(valid_sites) < Len(sites.list)
  /\ valid_sites[1] # valid_sites[2]

(***************************************************************************)
(* C13 (as stated): the per-site quota equals                              *)
(* max(results_wanted / number of normalised sites, 5), the quotient being *)
(* the exact one; it is never below 5 and no search adds more postings     *)
(* than the quota to the merged list.                                      *)
(***************************************************************************)
NoSearchExceedsQuota ==
  \A i \in 1..Len(valid_sites) : Contribution(i) <= jobs_per_site

BeyondCap ==
  {i \in FirstIdx(all_jobs) :
     Cardinality({j \in FirstIdx(all_jobs) : j < i}) >= results_wanted}

C14_RatedOnlyWithinCap ==
  /\ pc # "done" => rated = <<>>
  /\ Len(rated) <= results_wanted
  /\ NormalDone =>
       /\ rated = FirstDistinct(all_jobs, results_wanted)
       /\ Len(response.jobs) <= results_wanted
       /\ \A k \in 1..Len(response.jobs) :
             \E r \in 1..Len(rated) : Unrated(response.jobs[k]) = rated[r]
       /\ \A i \in BeyondCap :
             /\ all_jobs[i].url \notin UrlsOf(rated)
             /\ all_jobs[i].url \notin UrlsOf(response.jobs)

\* a posting beyond the cap would pass the filter while one inside the cap
\* was filtered out
C14_Witness ==
  /\ NormalDone
  /\ \E i \in BeyondCap : calculate_rating(all_jobs[i]) >= MIN_JOB_RATING
  /\ \E k \in 1..Len(rated) : calculate_rating(rated[k]) < MIN_JOB_RATING
  /\ Len(response.jobs) < results_wanted

(***************************************************************************)
(* C15 (as stated): the salary penalty is 0 for an empty text and for a    *)
(* text without a numeric token; otherwise, with v the first numeric token *)
(* of the text without "$" and ",", times 1000 when the text contains "k", *)
(* then times 2000 when that is below 200, the penalty is 0 for            *)
(* v >= 200000 and -floor((200000 - v) / 10000) below; the eight example   *)
(* texts give their stated penalties.                                      *)
(***************************************************************************)
\* the penalty of the number n (numerator, denominator), times 1000 if hasK
PenaltyOfNumber(n, hasK) ==
  LET v1 == IF hasK THEN n.num * 1000 ELSE n.num
      v2 == IF v1 < 200 * n.den THEN v1 * 2000 ELSE v1
  IN IF v2 >= 200000 * n.den THEN 0
     ELSE 0 - ((200000 * n.den - v2) \div (10000 * n.den))

\* text without "$" and ",", letters in lower case
Bare(text) == RemoveChar(RemoveChar(Lower(text), ","), "$")

\* the rule with the numeric token read from tokens
PenaltyRule(text, tokens) ==
  IF text = <<>> \/ FirstDigit(tokens) = 0 THEN 0
  ELSE PenaltyOfNumber(FirstNumber(tokens), Contains(Bare(text), <<"k">>))

StatedPenalties ==
  {<<<<"$", "2", "5", "0", ",", "0", "0", "0">>, 0>>, <<<<"2", "0", "0", "k">>, 0>>, <<<<"$", "1", "0", "0", "/", "h", "r">>, 0>>, <<<<>>, 0>>,
   <<<<"$", "1", "9", "0", ",", "0", "0", "0">>, 0 - 1>>, <<<<"$", "1", "5", "0", "k", " ", "-", " ", "$", "1", "8", "0", "k">>, 0 - 5>>,
   <<<<"1", "0", "0", "k">>, 0 - 10>>, <<<<"$", "5", "0", "/", "h", "r">>, 0 - 10>>}

SalaryReturned == probe.op = "salary" /\ probe.done

ExamplesAsStated ==
  \A x \in StatedPenalties : probe.in = x[1] => probe.out = x[2]

C15_PenaltyOfFirstToken ==
  SalaryReturned =>
    /\ probe.out = PenaltyRule(probe.in, Bare(probe.in))
    /\ ExamplesAsStated

(***************************************************************************)
(* C15 (amended): as above, with the numeric token read from the lower-    *)
(* cased text without "$", "," and "k": a "k" between two digits joins     *)
(* them into one token.                                                    *)
(***************************************************************************)
C15_PenaltyOfFirstTokenWithoutK ==
  SalaryReturned =>
    /\ probe.out = PenaltyRule(probe.in, RemoveChar(Bare(probe.in), "k"))
    /\ ExamplesAsStated

\* the penalty of a range in thousands was computed
C15_Witness ==
  /\ SalaryReturned
  /\ probe.in = <<"$", "1", "5", "0", "k", " ", "-", " ", "$", "1", "8", "0", "k">>
  /\ probe.out = 0 - 5

(***************************************************************************)
(* C16: the rating of a posting is the number of bonuses it earns          *)
(* (easy apply; recent; best-place company; "contract" in title or         *)
(* snippet; remote, by location or by flag; C# or "c sharp"; C++ or        *)
(* "cpp"), minus 1 when it is neither remote nor hybrid, plus its salary   *)
(* penalty.  A remote posting gets no onsite penalty, and the six test     *)
(* jobs are rated 5, -11, -4, 3, 2 and 0.                                  *)
(***************************************************************************)
TitleAndSnippet(job) == Lower(job.title) \o <<" ">> \o Lower(job.snippet)

CountsAsRemote(job) ==
  Contains(Lower(job.location), <<"r", "e", "m", "o", "t", "e">>) \/ job.remote = "true"

CountsAsHybrid(job) == Contains(Lower(job.location), <<"h", "y", "b", "r", "i", "d">>)

Earns(bonus, job) ==
  CASE bonus = "easy_apply" -> job.easy_apply
    [] bonus = "recent" -> _is_recent_job(job.date_posted)
    [] bonus = "best_place" -> _is_best_place_to_work(job.company)
    [] bonus = "contract" -> \/ Contains(Lower(job.title), <<"c", "o", "n", "t", "r", "a", "c", "t">>)
                             \/ Contains(Lower(job.snippet), <<"c", "o", "n", "t", "r", "a", "c", "t">>)
    [] bonus = "remote" -> CountsAsRemote(job)
    [] bonus = "csharp" -> \/ Contains(TitleAndSnippet(job), <<"c", "#">>)
                           \/ Contains(TitleAndSnippet(job), <<"c", " ", "s", "h", "a", "r", "p">>)
    [] bonus = "cpp" -> \/ Contains(TitleAndSnippet(job), <<"c", "+", "+">>)
                        \/ Contains(TitleAndSnippet(job), <<"c", "p", "p">>)

Bonuses == {"easy_apply", "recent", "best_place", "contract", "remote", "csharp", "cpp"}

BonusCount(job) == Cardinality({b \in Bonuses : Earns(b, job)})

OnsitePenalty(job) ==
  IF ~CountsAsRemote(job) /\ ~CountsAsHybrid(job) THEN 1 ELSE 0

StatedRatings ==
  {<<job_perfect, 5>>, <<job_bad, 0 - 11>>, <<job_hybrid, 0 - 4>>,
   <<job_recent, 3>>, <<job_old, 2>>, <<job_google, 0>>}

RatingReturned == probe.op = "rating" /\ probe.done

C16_RatingIsSum ==
  RatingReturned =>
    /\ probe.out = BonusCount(probe.in) - OnsitePenalty(probe.in)
                     + _calculate_salary_penalty(probe.in.salary)
    /\ CountsAsRemote(probe.in) =>
         probe.out = BonusCount(probe.in) + _calculate_salary_penalty(probe.in.salary)
    /\ \A x \in StatedRatings : probe.in = x[1] => probe.out = x[2]

\* the onsite job of the tests was rated
C16_Witness ==
  /\ RatingReturned
  /\ probe.in = job_bad
  /\ probe.out = 0 - 11

(***************************************************************************)
(* C17: a date text is recent exactly when it holds one of the immediacy   *)
(* tokens or is of the form "N d", "N day(s) ago" with N <= 3; every other *)
(* text is not recent, in particular every absolute date ("3 Dec 2025",    *)
(* an ISO timestamp) and every "N days ago" with N > 3.                    *)
(***************************************************************************)
Letters ==
  {"a", "b", "c", "d", "e", "f", "g", "h", "i", "j", "k", "l", "m", "n",
   "o", "p", "q", "r", "s", "t", "u", "v", "w", "x", "y", "z"}

\* the word that starts at position m of text
RECURSIVE WordAt(_, _)
WordAt(text, m) ==
  IF m > Len(text) \/ text[m] \notin Letters THEN <<>>
  ELSE <<text[m]>> \o WordAt(text, m + 1)

\* position of the first non-blank character after position j
AfterBlanks(text, j) ==
  IF \E m \in (j + 1)..Len(text) : text[m] # " "
  THEN CHOOSE m \in (j + 1)..Len(text) :
         text[m] # " " /\ \A q \in (j + 1)..(m - 1) : text[q] = " "
  ELSE Len(text) + 1

\* the text counts days: its first number is followed by d, day or days
CountsDays(text) ==
  /\ FirstDigit(text) # 0
  /\ WordAt(text, AfterBlanks(text, RunEnd(text, FirstDigit(text))))
       \in {<<"d">>, <<"d", "a", "y">>, <<"d", "a", "y", "s">>}

RecentAsStated(date_text) ==
  LET text == Lower(date_text)
  IN \/ \E x \in RECENT_TOKENS : Contains(text, x)
     \/ /\ CountsDays(text)
        /\ ToNat(text, FirstDigit(text), RunEnd(text, FirstDigit(text))) <= 3

RecentReturned == probe.op = "recent" /\ probe.done

C17_RecentOnlyRelative ==
  RecentReturned => (probe.out <=> RecentAsStated(probe.in))

(***************************************************************************)
(* C18: every posting an adapter returns has a non-empty title and a       *)
(* non-empty company; a card whose title or company is missing or blank    *)
(* yields no posting, with every adapter.                                  *)
(***************************************************************************)
ExtractReturned == probe.op = "extract" /\ probe.done

PageOf == probe.in.page.cards

HasTitleAndCompany(card) ==
  Strip(card.title) # <<>> /\ Strip(card.company) # <<>>

C18_TitleAndCompanyRequired ==
  ExtractReturned =>
    /\ \A k \in 1..Len(probe.out) :
          /\ probe.out[k].title # <<>>
          /\ probe.out[k].company # <<>>
          /\ \E i \in 1..Len(PageOf) :
                /\ HasTitleAndCompany(PageOf[i])
                /\ probe.out[k] = AdapterJob(probe.in.site, PageOf[i])
    /\ Len(probe.out) <=
         Cardinality({i \in 1..Len(PageOf) : HasTitleAndCompany(PageOf[i])})

\* a page with a card without company, a card with a blank title and a
\* complete card was extracted
C18_Witness ==
  /\ ExtractReturned
  /\ \E i \in 1..Len(PageOf) : PageOf[i].company = <<>>
  /\ \E i \in 1..Len(PageOf) :
        PageOf[i].title # <<>> /\ Strip(PageOf[i].title) = <<>>
  /\ Len(probe.out) = 1

(***************************************************************************)
(* C19: with every adapter, two cards of the same listing whose hrefs      *)
(* differ only in query parameters yield postings with the same url, so    *)
(* that deduplication keeps one of them.                                   *)
(***************************************************************************)
SameListing(c, d) ==
  /\ c.href # d.href
  /\ BeforeFirst(c.href, "?") = BeforeFirst(d.href, "?")
  /\ [c EXCEPT !.href = <<>>] = [d EXCEPT !.href = <<>>]

C19_UrlIsCanonical ==
  ExtractReturned =>
    \A i, j \in 1..Len(PageOf) :
       (SameListing(PageOf[i], PageOf[j]) /\ ~PageOf[i].broken) =>
          /\ AdapterJob(probe.in.site, PageOf[i]).url =
               AdapterJob(probe.in.site, PageOf[j]).url
          /\ Len(Dedup(probe.out, Len(probe.out) + 1)) < Len(probe.out)

(***************************************************************************)
(* C20: when the extraction of a card raises, that card alone is skipped:  *)
(* the page extraction returns the postings of the other cards that have   *)
(* title and company, those before and those after it, in page order.      *)
(***************************************************************************)
Extractable ==
  {i \in 1..Len(PageOf) : ~PageOf[i].broken /\ HasTitleAndCompany(PageOf[i])}

C20_CardErrorSkipsOneCard ==
  ExtractReturned =>
    /\ Len(probe.out) = Cardinality(Extractable)
    /\ \A k \in 1..Len(probe.out) :
          probe.out[k] = AdapterJob(probe.in.site, PageOf[Nth(Extractable, k)])

\* a card raised between two cards that were extracted
C20_Witness ==
  /\ ExtractReturned
  /\ \E i, j, k \in 1..Len(PageOf) :
        /\ i < j /\ j < k
        /\ PageOf[j].broken
        /\ i \in Extractable /\ k \in Extractable
        /\ PageOf[i] # PageOf[k]
  /\ Len(probe.out) = 2

(***************************************************************************)
(* C21: add_job inserts a row only if the url is absent.  No two rows of   *)
(* the sheet hold the same job url, and an add_job call for a url that a   *)
(* row already holds leaves the sheet unchanged and, when the call got as  *)
(* far as its duplicate check, reports that the job already exists.        *)
(***************************************************************************)
URL_CELL == 5

\* the rows that hold url as their job url
RowsOfUrl(url) ==
  {i \in 1..Len(sheet) : Len(sheet[i]) >= URL_CELL /\ sheet[i][URL_CELL] = url}

NoUrlTwice == \A url \in SheetUrls : Cardinality(RowsOfUrl(url)) <= 1

AddJobOfPresentUrl ==
  /\ calls' = calls + 1
  /\ reply'.op = "add_job"
  /\ RowsOfUrl(reply'.url) # {}

ProperHeader == sheet # <<>> /\ sheet[1] = EXPECTED_HEADERS

\* the job of row i is in the result of the get_new_jobs call just made
Listed(i) ==
  \E k \in 1..Len(reply.jobs) : reply.jobs[k] = RecordOf(sheet[1], sheet[i])

C22_NewJobsListed ==
  (reply.op = "get_new_jobs" /\ reply.kind = "ok" /\ ProperHeader) =>
     \A i \in 2..Len(sheet) : (sheet[i][STATUS_COL] = "New") <=> Listed(i)

(***************************************************************************)
(* C23: between two consecutive page navigations of the same site a page   *)
(* delay is executed, also when the earlier navigation failed, and between *)
(* the last navigation of a site and the first navigation of the next one  *)
(* a site delay is executed.                                               *)
(***************************************************************************)
\* positions a < b of the trace hold navigations with no navigation between
ConsecutiveNavigations(a, b) ==
  /\ a < b
  /\ trace[a][1] = "goto"
  /\ trace[b][1] = "goto"
  /\ \A m \in (a + 1)..(b - 1) : trace[m][1] # "goto"

DelayBetween(a, b, kinds) == \E d \in (a + 1)..(b - 1) : trace[d][1] \in kinds

C23_DelayBetweenNavigations ==
  \A a, b \in 1..Len(trace) :
     ConsecutiveNavigations(a, b) =>
        IF trace[a][2] = trace[b][2]
        THEN DelayBetween(a, b, {"page_delay"})
        ELSE DelayBetween(a, b, {"site_delay"})

\* the same, not asking for the page delay after a navigation that failed
DelayUnlessNavigationFailed ==
  \A a, b \in 1..Len(trace) :
     (ConsecutiveNavigations(a, b) /\ ~DelayBetween(a, b, {"error"})) =>
        IF trace[a][2] = trace[b][2]
        THEN DelayBetween(a, b, {"page_delay"})
        ELSE DelayBetween(a, b, {"site_delay"})

(***************************************************************************)
(* C24: every find_jobs run ends with a response or the error envelope;    *)
(* the sites are searched one at a time in the order of the normalised     *)
(* list; a run navigates at most ceil(quota / 25) LinkedIn pages, at most  *)
(* ceil(quota / 15) Indeed pages and exactly one page of each of           *)
(* Glassdoor, Google and Levels.fyi, and navigates no page url twice.      *)
(***************************************************************************)
\* the navigations of the run as pairs <<site, page number>>
Navigations ==
  [k \in 1..Len(EventsOf({"goto"})) |->
     <<valid_sites[EventsOf({"goto"})[k][2]], EventsOf({"goto"})[k][3]>>]

NavigationsOf(site) ==
  Cardinality({k \in 1..Len(Navigations) : Navigations[k][1] = site})

NoUrlNavigatedTwice ==
  \A a, b \in 1..Len(Navigations) : Navigations[a] = Navigations[b] => a = b

\* the searches were started in list order, one after the other
InListOrder ==
  /\ \A k \in 1..Len(SearchOrder) : SearchOrder[k] = k
  /\ \A a, b \in 1..Len(trace) :
        (a < b /\ trace[a][2] # 0 /\ trace[b][2] # 0) => trace[a][2] <= trace[b][2]

SiteLoopOver == pc \in {"dedup", "rate"} \/ NormalDone

NavigationBounds ==
  /\ NavigationsOf(<<"l", "i", "n", "k", "e", "d", "i", "n">>) <= (jobs_per_site + LINKEDIN_PAGE - 1) \div LINKEDIN_PAGE
  /\ NavigationsOf(<<"i", "n", "d", "e", "e", "d">>) <= (jobs_per_site + INDEED_PAGE - 1) \div INDEED_PAGE
  /\ \A site \in {<<"g", "l", "a", "s", "s", "d", "o", "o", "r">>, <<"g", "o", "o", "g", "l", "e">>, <<"l", "e", "v", "e", "l", "s", "f", "y", "i">>} :
        /\ NavigationsOf(site) <= 1
        /\ (SiteLoopOver /\ \E i \in 1..Len(valid_sites) : valid_sites[i] = site)
              => NavigationsOf(site) = 1

C24_TerminatesWithBoundedNavigations ==
  /\ <>Done
  /\ [](InListOrder /\ NavigationBounds /\ NoUrlNavigatedTwice)

(***************************************************************************)
(* C25: the per-site quotas together cover the overall target: the quota   *)
(* times the number of normalised sites is at least results_wanted, so     *)
(* that a run in which every site supplied its full quota of postings      *)
(* with distinct urls that all pass the rating threshold returns exactly   *)
(* results_wanted jobs.                                                    *)
(***************************************************************************)
EverySiteSuppliedItsQuota ==
  /\ \A i \in 1..Len(valid_sites) : Contribution(i) = jobs_per_site
  /\ \A a, b \in 1..Len(all_jobs) :
        (all_jobs[a].url = all_jobs[b].url /\ all_jobs[a].url # <<>>) => a = b
  /\ \A a \in 1..Len(all_jobs) :
        all_jobs[a].url # <<>> /\ calculate_rating(all_jobs[a]) >= MIN_JOB_RATING

C25_QuotasCoverTarget ==
  pc # "start" =>
    /\ jobs_per_site * Len(valid_sites) >= results_wanted
    /\ (NormalDone /\ EverySiteSuppliedItsQuota)
          => Len(response.jobs) = results_wanted

(***************************************************************************)
(* C26 (as stated): the salary penalty is monotone in the stated amount:   *)
(* for two salary texts of the same form (both without "k" or both with    *)
(* "k") whose first numeric tokens are a <= b, the penalty of the text     *)
(* with a is not better (closer to 0) than the penalty of the text with b. *)
(***************************************************************************)
PairReturned == probe.op = "salary pair" /\ probe.done

HasK(text) == Contains(Bare(text), <<"k">>)

SameForm(s, t) == HasK(s) = HasK(t)

\* a <= b for two numbers given as numerator and denominator
AtMost(a, b) == a.num * b.den <= b.num * a.den

C26_PenaltyMonotone ==
  PairReturned =>
    LET s == probe.in[1]
        t == probe.in[2]
    IN (/\ SameForm(s, t)
        /\ FirstDigit(Bare(s)) # 0
        /\ FirstDigit(Bare(t)) # 0
        /\ AtMost(FirstNumber(Bare(s)), FirstNumber(Bare(t))))
          => probe.out[1] <= probe.out[2]

(***************************************************************************)
(* C26 (amended): the salary penalty is monotone in the stated amount on   *)
(* each side of the hourly threshold: for two salary texts of the same     *)
(* form whose amounts a <= b (the first numeric token of the text without  *)
(* "$", "," and "k", times 1000 for a text with "k") are both below 200 or *)
(* both at least 200, the penalty of the text with a is not better than    *)
(* the penalty of the text with b.                                         *)
(***************************************************************************)
NoK(text) == RemoveChar(Bare(text), "k")

\* the amount of a text that has a digit, as numerator and denominator
Amount(text) ==
  LET n == FirstNumber(NoK(text))
  IN [num |-> IF HasK(text) THEN n.num * 1000 ELSE n.num, den |-> n.den]

ReadAsHourly(text) == Amount(text).num < 200 * Amount(text).den

C26_PenaltyMonotoneBesideThreshold ==
  PairReturned =>
    LET s == probe.in[1]
        t == probe.in[2]
    IN (/\ SameForm(s, t)
        /\ FirstDigit(NoK(s)) # 0
        /\ FirstDigit(NoK(t)) # 0
        /\ AtMost(Amount(s), Amount(t))
        /\ ReadAsHourly(s) = ReadAsHourly(t))
          => probe.out[1] <= probe.out[2]

\* two hourly amounts, the larger with the strictly better penalty
C26_Witness ==
  /\ PairReturned
  /\ probe.in = <<<<"1", "9">>, <<"9", "0">>>>
  /\ probe.out[1] < probe.out[2]

(***************************************************************************)
(* C27: ratings are bounded: for every posting the salary penalty lies in  *)
(* -20..0 and calculate_rating lies in -21..7, and every rating that       *)
(* appears in a response lies in 0..7.                                     *)
(***************************************************************************)
PenaltyRange == (0 - 20)..0

RatingRange == (0 - 21)..7

ResponseRatingRange == 0..7

C27_RatingsBounded ==
  /\ SalaryReturned => probe.out \in PenaltyRange
  /\ PairReturned => probe.out[1] \in PenaltyRange /\ probe.out[2] \in PenaltyRange
  /\ RatingReturned =>
       /\ probe.out \in RatingRange
       /\ _calculate_salary_penalty(probe.in.salary) \in PenaltyRange
  /\ \A k \in 1..Len(rated) :
       /\ calculate_rating(rated[k]) \in RatingRange
       /\ _calculate_salary_penalty(rated[k].salary) \in PenaltyRange
  /\ NormalDone =>
       \A k \in 1..Len(response.jobs) : response.jobs[k].rating \in ResponseRatingRange

\* the lowest rating: an onsite job with the full salary penalty
C27_Witness ==
  /\ RatingReturned
  /\ probe.in = job_worst
  /\ _calculate_salary_penalty(probe.in.salary) = 0 - 20
  /\ probe.out = 0 - 21

(***************************************************************************)
(* C28: every posting in the jobs list of a response has a non-empty url:  *)
(* a posting extracted with title and company but without a url is dropped *)
(* by the dedup step, is not counted towards results_wanted and is never   *)
(* rated.                                                                  *)
(***************************************************************************)
HasUrl(job) == job.url # <<>>

WithUrl(jobs) == SelectSeq(jobs, HasUrl)

DedupOver == pc = "rate" \/ NormalDone

C28_ResponseJobsHaveUrl ==
  /\ \A k \in 1..Len(rated) : HasUrl(rated[k])
  /\ DedupOver =>
       /\ \A k \in 1..Len(unique_jobs) : HasUrl(unique_jobs[k])
       /\ unique_jobs = Dedup(WithUrl(all_jobs), results_wanted)
  /\ NormalDone => \A k \in 1..Len(response.jobs) : HasUrl(response.jobs[k])

\* a posting without url that would pass the threshold came before a kept
\* posting, and the response is full
C28_Witness ==
  /\ NormalDone
  /\ Len(response.jobs) = results_wanted
  /\ \E i \in 1..Len(all_jobs) :
        /\ ~HasUrl(all_jobs[i])
        /\ all_jobs[i].title # <<>> /\ all_jobs[i].company # <<>>
        /\ calculate_rating(all_jobs[i]) >= MIN_JOB_RATING
        /\ \E j \in (i + 1)..Len(all_jobs) :
              Unrated(response.jobs[Len(response.jobs)]) = all_jobs[j]

(***************************************************************************)
(* C29: the normalised sites are a set: each recognised site is searched   *)
(* at most once per run and appears at most once in sites_searched, and    *)
(* the per-site quota is computed from the number of distinct sites, also  *)
(* when the argument lists a site more than once or in another letter case.*)
(***************************************************************************)
Range(list) == {list[i] : i \in 1..Len(list)}

NoEntryTwice(list) == \A a, b \in 1..Len(list) : list[a] = list[b] => a = b

SearchesOf(site) ==
  Cardinality({k \in 1..Len(SearchOrder) : valid_sites[SearchOrder[k]] = site})

C29_SitesAreASet ==
  pc # "start" =>
    /\ NoEntryTwice(valid_sites)
    /\ \A site \in SUPPORTED_SITES : SearchesOf(site) <= 1
    /\ jobs_per_site = JobsPerSite(results_wanted, Cardinality(Range(valid_sites)))
    /\ NormalDone => NoEntryTwice(response.sites_searched)

(***************************************************************************)
(* C30: the rating logic that the test suite exercises                     *)
(* (MockJobSpyTools.calculate_rating and _calculate_salary_penalty) is     *)
(* equivalent to that of JobSpyTools: for every posting both return the    *)
(* same rating and the same salary penalty, also for a company name such   *)
(* as "Google Inc" or "Adobe" that earns the best-place-to-work bonus.     *)
(***************************************************************************)
MockReturned == probe.op = "mock rating" /\ probe.done

C30_MockEquivalent ==
  MockReturned =>
    /\ probe.out[1] = probe.out[2]
    /\ MockJobSpyTools_calculate_salary_penalty(probe.in.salary)
         = _calculate_salary_penalty(probe.in.salary)

\* the mock and JobSpyTools agree unless the company earns the bonus in one only
MockDiffersInBestPlaceOnly ==
  MockReturned =>
    /\ MockJobSpyTools_calculate_salary_penalty(probe.in.salary)
         = _calculate_salary_penalty(probe.in.salary)
    /\ probe.out[2] - probe.out[1] =
         B2N(_is_best_place_to_work(probe.in.company))
           - B2N(Lower(probe.in.company) \in MOCK_BEST_PLACES_TO_WORK)

=============================================================================
